---------------------------- MODULE Spec2Model ----------------------------
(***************************************************************************)
(* A model of the red/black SOR Poisson solvers of src/src/psi_sor.c       *)
(* (psi_sor_solve, psi_sor_poisson, psi_sor_vare_poisson) running SPMD on  *)
(* a Cartesian decomposition along X.                                      *)
(*                                                                         *)
(* Numbers.  The C code works in double precision.  Here the potential,    *)
(* the charge density, the residuals and the tolerances are integers (the  *)
(* real value in model units), and the over-relaxation factor and the      *)
(* spectral radius are fixed-point numbers with Scale units to 1.0.  The   *)
(* quotients of the code are truncated towards zero.                       *)
(***************************************************************************)
EXTENDS Integers, Sequences, FiniteSets, TLC

(***************************************************************************)
(* Bounds of the model.                                                    *)
(***************************************************************************)
\* largest value of the maximum number of iterations (psi_maxits)
MaxIts == 6
\* largest global extent max(ltot[X], ltot[Z]) of the omega specification
MaxLtot == 24
\* maximum number of iterations of the solves of the omega specification
MaxOmegaIts == 6
\* largest maximum number of iterations of the solves followed site by site
MaxOrderIts == 2

(***************************************************************************)
(* Program constants.                                                      *)
(***************************************************************************)
\* const int ncheck = 5 in psi_sor_poisson
NCheckPoisson == 5
\* const int ncheck = 1 in psi_sor_vare_poisson
NCheckVare == 1
\* cs_nhalo_set(cs, 1) in the unit test
NHalo == 1
\* REF_PERMEATIVITY 1.0: the uniform permittivity
Epsilon == 1
\* resolution of the fixed-point numbers standing for omega and radius
Scale == 10000
\* 4.0*atan(1.0) in units of 1/Scale
Pi == 31416

X == 1
Y == 2
Z == 3

(***************************************************************************)
(* Arithmetic.                                                             *)
(***************************************************************************)
Abs(a) == IF a < 0 THEN -a ELSE a

\* fabs() of the code
fabs(a) == Abs(a)

\* dmax() of util.c
dmax(a, b) == IF a > b THEN a ELSE b

\* a / b for b # 0, truncated towards zero
TDiv(a, b) ==
  LET q == Abs(a) \div Abs(b)
  IN  IF (a < 0) = (b < 0) THEN q ELSE -q

\* C's a % b for b > 0 (the result has the sign of a)
CMod(a, b) == IF a >= 0 THEN a % b ELSE -((-a) % b)

\* Op(e) with e evaluated once, whatever the number of uses Op makes of it
Strict(Op(_), e) == CHOOSE r \in { Op(v) : v \in {e} } : TRUE

\* product and quotient of two fixed-point numbers
FMul(a, b) == TDiv(a * b, Scale)
FDiv(a, b) == TDiv(a * Scale, b)


(***************************************************************************)
(* The over-relaxation factor (psi_sor_poisson, psi_sor_vare_poisson).     *)
(***************************************************************************)
\* the value standing for the infinite quotient 1.0/0.0
Infinity == 100 * Scale

\* 1.0 / d
Recip(d) == IF d = 0 THEN Infinity ELSE FDiv(Scale, d)

\* radius = 1.0 - 0.5*pow(4.0*atan(1.0)/dmax(ltot[X],ltot[Z]), 2)
Radius(ltot) ==
  LET q == TDiv(Pi, dmax(ltot[X], ltot[Z]))
  IN  Scale - TDiv(FMul(q, q), 2)

\* a faulty variant of OmegaSeed: without the factor 0.5
OmegaSeed_nohalf(radius) == Recip(Scale - FMul(radius, radius))

\* omega = 1.0 / (1.0 - 0.5*radius*radius)
OmegaSeed(radius) == Recip(Scale - TDiv(FMul(radius, radius), 2))

\* omega = 1.0 / (1.0 - 0.25*radius*radius*omega)
OmegaNext(radius, omega) ==
  Recip(Scale - TDiv(FMul(FMul(radius, radius), omega), 4))

\* a faulty variant of OmegaPoisson: the recurrence from the start
OmegaPoisson_noseed(radius, omega, n, pass) == OmegaNext(radius, omega)

\* the recomputation after a half-sweep of psi_sor_poisson
OmegaPoisson(radius, omega, n, pass) ==
  IF n = 0 /\ pass = 0 THEN OmegaSeed(radius) ELSE OmegaNext(radius, omega)

\* assert(1.0 < omega); assert(omega < 2.0)
OmegaAsserts(omega) == Scale < omega /\ omega < 2 * Scale

(***************************************************************************)
(* The coordinate system (coords.h).  Local coordinates <<ic, jc, kc>> run *)
(* over 1-NHalo .. nlocal+NHalo; the address has z running fastest.        *)
(***************************************************************************)
cs_nall(nlocal) == [d \in 1..3 |-> nlocal[d] + 2 * NHalo]

cs_nsites(nlocal) ==
  cs_nall(nlocal)[X] * cs_nall(nlocal)[Y] * cs_nall(nlocal)[Z]

cs_strides(nlocal) ==
  [xs |-> cs_nall(nlocal)[Y] * cs_nall(nlocal)[Z],
   ys |-> cs_nall(nlocal)[Z],
   zs |-> 1]

cs_index(nlocal, ic, jc, kc) ==
    cs_strides(nlocal).xs * (NHalo + ic - 1)
  + cs_strides(nlocal).ys * (NHalo + jc - 1)
  + (NHalo + kc - 1)

cs_index_to_ijk(nlocal, index) ==
  LET st == cs_strides(nlocal)
  IN  << 1 - NHalo + (index \div st.xs),
         1 - NHalo + ((index % st.xs) \div st.ys),
         1 - NHalo + (index % st.ys) >>

\* ltot = ntotal = nlocal * cartsz (an exact uniform decomposition)
cs_ltot(nlocal, cartsz) == [d \in 1..3 |-> nlocal[d] * cartsz[d]]

\* the interior (owned) sites and all storage sites
Interior(nlocal) ==
  { cs_index(nlocal, c[1], c[2], c[3]) :
      c \in (1..nlocal[X]) \X (1..nlocal[Y]) \X (1..nlocal[Z]) }

Sites(nlocal) == 0 .. cs_nsites(nlocal) - 1

(***************************************************************************)
(* The stencils.  f is the potential obj->psi over all storage sites, rho  *)
(* the charge densities (one per species) over all storage sites.          *)
(***************************************************************************)
\* psi_rho_elec(): the sum over the species of valency times density
psi_rho_elec(obj, rho, index) ==
  obj.valency[1] * rho[index][1] + obj.valency[2] * rho[index][2]

\* the addresses read by the 6-point stencil at index, besides index
StencilNeighbours(nlocal, index) ==
  LET st == cs_strides(nlocal)
  IN  { index + st.xs, index - st.xs, index + st.ys, index - st.ys,
        index + st.zs, index - st.zs }

\* dpsi: the 6-point stencil of the Laplacian
Dpsi(nlocal, f, index) ==
  LET st == cs_strides(nlocal)
  IN    f[index + st.xs] + f[index - st.xs]
      + f[index + st.ys] + f[index - st.ys]
      + f[index + st.zs] + f[index - st.zs]
      - 6 * f[index]

\* residual = epsilon*dpsi + eunit*beta*rho_elec
ResidualPoisson(obj, f, rho, index) ==
    obj.epsilon * Dpsi(obj.nlocal, f, index)
  + obj.eunit * obj.beta * psi_rho_elec(obj, rho, index)

\* the coefficient callbacks f_vare_t: a constant one (fepsilon_constant of
\* the unit test) and one that varies along z with period 2
fepsilon(fe, nlocal, index) ==
  IF fe = "constant" THEN Epsilon
  ELSE Epsilon + (cs_index_to_ijk(nlocal, index)[Z] % 2)

\* 0.25 * a
Quarter(a) == TDiv(a, 4)

\* a faulty variant of Depsi: the terms of the backward neighbours left out
Depsi_forward(obj, fe, f, index) ==
  LET st   == cs_strides(obj.nlocal)
      eps0 == fepsilon(fe, obj.nlocal, index)
  IN    eps0 * (- 6 * f[index]
                + f[index + st.xs] + f[index - st.xs]
                + f[index + st.ys] + f[index - st.ys]
                + f[index + st.zs] + f[index - st.zs])
      + Quarter(fepsilon(fe, obj.nlocal, index + st.xs)
                * (f[index + st.xs] - f[index - st.xs]))
      + Quarter(fepsilon(fe, obj.nlocal, index + st.ys)
                * (f[index + st.ys] - f[index - st.ys]))
      + Quarter(fepsilon(fe, obj.nlocal, index + st.zs)
                * (f[index + st.zs] - f[index - st.zs]))

\* depsi: the differenced left-hand side of psi_sor_vare_poisson
Depsi(obj, fe, f, index) ==
  LET st   == cs_strides(obj.nlocal)
      eps0 == fepsilon(fe, obj.nlocal, index)
      dx   == f[index + st.xs] - f[index - st.xs]
      dy   == f[index + st.ys] - f[index - st.ys]
      dz   == f[index + st.zs] - f[index - st.zs]
  IN    eps0 * (- 6 * f[index]
                + f[index + st.xs] + f[index - st.xs]
                + f[index + st.ys] + f[index - st.ys]
                + f[index + st.zs] + f[index - st.zs])
      + Quarter(fepsilon(fe, obj.nlocal, index + st.xs) * dx)
      - Quarter(fepsilon(fe, obj.nlocal, index - st.xs) * dx)
      + Quarter(fepsilon(fe, obj.nlocal, index + st.ys) * dy)
      - Quarter(fepsilon(fe, obj.nlocal, index - st.ys) * dy)
      + Quarter(fepsilon(fe, obj.nlocal, index + st.zs) * dz)
      - Quarter(fepsilon(fe, obj.nlocal, index - st.zs) * dz)

\* residual = depsi + eunit*beta*rho_elec
ResidualVare(obj, fe, f, rho, index) ==
    Depsi(obj, fe, f, index)
  + obj.eunit * obj.beta * psi_rho_elec(obj, rho, index)

\* the residual of the solver fn ("poisson" or "vare") at a site
Residual(fn, obj, fe, f, rho, index) ==
  IF fn = "poisson" THEN ResidualPoisson(obj, f, rho, index)
  ELSE ResidualVare(obj, fe, f, rho, index)

\* psi -= omega*residual / (-6.0*epsilon), with eps the epsilon or eps0
Relax(psi0, omega, residual, eps) ==
  psi0 - TDiv(omega * residual, (- 6) * eps * Scale)

\* the permittivity the relaxation divides by
RelaxEps(fn, obj, fe, index) ==
  IF fn = "poisson" THEN obj.epsilon ELSE fepsilon(fe, obj.nlocal, index)

(***************************************************************************)
(* The loops over the sites.                                               *)
(***************************************************************************)
\* rnorm_local[0]: the loop over all interior sites before the iteration;
\* NormRange sums over the sites of S with addresses lo..hi
RECURSIVE NormRange(_, _, _, _, _, _, _, _)
NormRange(fn, obj, fe, f, rho, S, lo, hi) ==
  IF lo > hi THEN 0
  ELSE IF lo = hi
  THEN IF lo \in S THEN fabs(Residual(fn, obj, fe, f, rho, lo)) ELSE 0
  ELSE Strict(LAMBDA mid : NormRange(fn, obj, fe, f, rho, S, lo, mid)
                           + NormRange(fn, obj, fe, f, rho, S, mid + 1, hi),
              (lo + hi) \div 2)

InitialNorm(fn, obj, fe, f, rho) ==
  Strict(LAMBDA S : NormRange(fn, obj, fe, f, rho, S,
                              0, cs_nsites(obj.nlocal) - 1),
         Interior(obj.nlocal))

\* a faulty variant of Kst: jc left out of the sum
Kst_nojc(ic, jc, pass) == 1 + ((ic + pass) % 2)

\* kst = 1 + (ic + jc + pass) % 2
Kst(ic, jc, pass) == 1 + ((ic + jc + pass) % 2)

\* a faulty variant of PassSites: kc <= nlocal[Z] + 1, one site too far
PassSites_toofar(nlocal, pass) ==
  { cs_index(nlocal, c[1], c[2], c[3]) :
      c \in { d \in (1..nlocal[X]) \X (1..nlocal[Y]) \X (1..nlocal[Z] + 1) :
                /\ d[3] >= Kst(d[1], d[2], pass)
                /\ (d[3] - Kst(d[1], d[2], pass)) % 2 = 0 } }

\* the sites visited by for (kc = kst; kc <= nlocal[Z]; kc += 2) inside the
\* loops over ic and jc
PassSites(nlocal, pass) ==
  { cs_index(nlocal, c[1], c[2], c[3]) :
      c \in { d \in (1..nlocal[X]) \X (1..nlocal[Y]) \X (1..nlocal[Z]) :
                /\ d[3] >= Kst(d[1], d[2], pass)
                /\ (d[3] - Kst(d[1], d[2], pass)) % 2 = 0 } }

\* the body of the innermost loop at one site: st is the record of the
\* potential, rnorm_local[1] and the number of writes to each site
UpdateSite(fn, obj, fe, rho, omega, st, index) ==
  LET residual == Residual(fn, obj, fe, st.psi, rho, index)
  IN  [psi    |-> [st.psi EXCEPT ![index] =
                     Relax(st.psi[index], omega, residual,
                           RelaxEps(fn, obj, fe, index))],
       rl1    |-> st.rl1 + fabs(residual),
       nwrite |-> [st.nwrite EXCEPT ![index] = @ + 1]]

\* one half-sweep: the sites of the pass in the order of the loops (ic
\* outermost, kc innermost, which is the order of increasing address);
\* SweepRange visits the sites of S with addresses lo..hi in that order
RECURSIVE SweepRange(_, _, _, _, _, _, _, _, _)
SweepRange(fn, obj, fe, rho, omega, st, S, lo, hi) ==
  IF lo > hi THEN st
  ELSE IF lo = hi
  THEN IF lo \in S THEN UpdateSite(fn, obj, fe, rho, omega, st, lo) ELSE st
  ELSE Strict(LAMBDA mid :
                Strict(LAMBDA v : SweepRange(fn, obj, fe, rho, omega, v, S,
                                             mid + 1, hi),
                       SweepRange(fn, obj, fe, rho, omega, st, S, lo, mid)),
              (lo + hi) \div 2)

HalfSweep(fn, obj, fe, rho, omega, st, pass) ==
  Strict(LAMBDA v :
           Strict(LAMBDA S : SweepRange(fn, obj, fe, rho, omega, v, S,
                                        0, cs_nsites(obj.nlocal) - 1),
                  PassSites(obj.nlocal, pass)),
         st)

(***************************************************************************)
(* The halo exchange of the potential (psi_halo_psi): axis X, then Y, then *)
(* Z, each complete before the next.  The process grid is cartsz =         *)
(* <<np, 1, 1>>, periodic in all three axes, so that the exchange along X  *)
(* is between processes (or a local copy when np = 1) and those along Y    *)
(* and Z are local copies.  The slabs of a later axis include the ghost    *)
(* sites the earlier axes have filled.                                     *)
(***************************************************************************)
\* cs_cart_neighb(cs, forwback, X) for the process of Cartesian rank p
cs_cart_neighb(np, p, forwback) ==
  IF forwback = "FORWARD" THEN (p + 1) % np ELSE (p + np - 1) % np

\* pack: the owned plane ic of the potential
PackX(nlocal, f, ic) ==
  [c \in (1..nlocal[Y]) \X (1..nlocal[Z]) |->
     f[cs_index(nlocal, ic, c[1], c[2])]]

\* unpack: the received planes into the ghost planes 0 and nlocal[X]+1
UnpackX(nlocal, f, fromback, fromforw) ==
  [i \in DOMAIN f |->
     LET c == cs_index_to_ijk(nlocal, i)
     IN  IF c[2] \in 1..nlocal[Y] /\ c[3] \in 1..nlocal[Z]
         THEN IF c[1] = 0 THEN fromback[<<c[2], c[3]>>]
              ELSE IF c[1] = nlocal[X] + 1 THEN fromforw[<<c[2], c[3]>>]
              ELSE f[i]
         ELSE f[i]]

\* the exchange along Y on a single-process periodic axis
HaloY(nlocal, f) ==
  [i \in DOMAIN f |->
     LET c == cs_index_to_ijk(nlocal, i)
     IN  IF c[3] \in 1..nlocal[Z]
         THEN IF c[2] = 0
              THEN f[cs_index(nlocal, c[1], nlocal[Y], c[3])]
              ELSE IF c[2] = nlocal[Y] + 1
              THEN f[cs_index(nlocal, c[1], 1, c[3])]
              ELSE f[i]
         ELSE f[i]]

\* the exchange along Z on a single-process periodic axis
HaloZ(nlocal, f) ==
  [i \in DOMAIN f |->
     LET c == cs_index_to_ijk(nlocal, i)
     IN  IF c[3] = 0 THEN f[cs_index(nlocal, c[1], c[2], nlocal[Z])]
         ELSE IF c[3] = nlocal[Z] + 1 THEN f[cs_index(nlocal, c[1], c[2], 1)]
         ELSE f[i]]

\* the exchange once the two planes of the X neighbours are there
HaloUnpack(nlocal, f, fromback, fromforw) ==
  Strict(LAMBDA y : HaloZ(nlocal, y),
         Strict(LAMBDA x : HaloY(nlocal, x),
                Strict(LAMBDA b :
                         Strict(LAMBDA w : UnpackX(nlocal, f, b, w), fromforw),
                       fromback)))

\* MPI_Allreduce(rnorm_local, rnorm, 2, MPI_DOUBLE, MPI_SUM, comm): the sum
\* over the processes procs of component i of contribution number k
RECURSIVE SumOver(_, _, _, _)
SumOver(posted, procs, k, i) ==
  IF procs = {} THEN 0
  ELSE LET q == CHOOSE q \in procs : TRUE
       IN  posted[q][k][i] + SumOver(posted, procs \ {q}, k, i)

\* a faulty variant of MPI_Allreduce: the local contribution, not reduced
MPI_Allreduce_local(posted, procs, p, k) == posted[p][k]

MPI_Allreduce(posted, procs, p, k) ==
  << SumOver(posted, procs, k, 1), SumOver(posted, procs, k, 2) >>

(***************************************************************************)
(* The tests of the residual.  tol_rel is the rational tol_rel / 100.      *)
(***************************************************************************)
\* a faulty variant of BelowAbs: <= in place of <
BelowAbs_le(obj, rnorm) == rnorm[2] <= obj.tol_abs

\* rnorm[1] < tol_abs
BelowAbs(obj, rnorm) == rnorm[2] < obj.tol_abs

\* rnorm[1] < tol_rel*rnorm[0]
BelowRel(obj, rnorm) == rnorm[2] * 100 < obj.tol_rel * rnorm[1]

\* the second test of psi_sor_poisson
BelowAbsOrRel(obj, rnorm) == BelowAbs(obj, rnorm) \/ BelowRel(obj, rnorm)

\* the condition of the second if of the solver fn
SecondTest(fn, obj, rnorm) ==
  IF fn = "poisson" THEN BelowAbsOrRel(obj, rnorm) ELSE BelowRel(obj, rnorm)

\* a faulty variant of NCheck: the interval of psi_sor_vare_poisson in both
NCheck_vare(fn) == NCheckVare

\* ncheck of the solver fn
NCheck(fn) == IF fn = "poisson" THEN NCheckPoisson ELSE NCheckVare

\* its % obj->nfreq == 0
ReportDue(obj, its) == CMod(its, obj.nfreq) = 0

(***************************************************************************)
(* The state.                                                              *)
(***************************************************************************)
VARIABLES
  obj,          \* the psi_t object: extents, decomposition and parameters
  arg,          \* the arguments of the call: entry function, fepsilon, its
  psi,          \* psi[p]: obj->psi of process p over all storage sites
  rho,          \* rho[p]: obj->rho of process p over all storage sites
  pc,           \* pc[p]: where process p is
  fn,           \* fn[p]: the solver p is in ("poisson", "vare" or "none")
  caller,       \* caller[p]: the statement the solver returns to
  n,            \* n[p]: the relaxation iteration
  pass,         \* pass[p]: the red/black pass
  omega,        \* omega[p]: the over-relaxation parameter
  rnorm_local,  \* rnorm_local[p]: <<initial, current>> local norms
  rnorm,        \* rnorm[p]: <<initial, current>> reduced norms
  chan,         \* chan[<<p, d>>]: planes p has sent in direction d
  posted,       \* posted[p]: the contributions of p to the reductions
  info,         \* info[p]: the pe_info() reports of p
  evlog,        \* evlog[p]: half-sweeps, halo exchanges, reductions done
  brk,          \* brk[p]: the loop was left by a break
  fnret,        \* fnret[p]: << >>, or << the value the solver returned >>
  ret,          \* ret[p]: << >>, or << the value the entry function returned >>
  calls,        \* calls[p]: the solvers called
  nwrite,       \* nwrite[p]: writes to each site in the current full sweep
  todo          \* todo[p]: a half-sweep taken site by site in any order:
                \* the sites left, the state and omega it started from,
                \* and whether the order has been that of the loops

vars == << obj, arg, psi, rho, pc, fn, caller, n, pass, omega, rnorm_local,
           rnorm, chan, posted, info, evlog, brk, fnret, ret, calls, nwrite,
           todo >>

Procs == 0 .. obj.cartsz[X] - 1

\* Cartesian ranks of the largest process grid followed
Ranks == {0, 1}

\* process p exists and is at label l
At(p, l) == p \in Procs /\ pc[p] = l

Directions == {"FORWARD", "BACKWARD"}

\* radius, a local variable set once from ltot
RadiusOf == Radius(cs_ltot(obj.nlocal, obj.cartsz))

(***************************************************************************)
(* The inputs.                                                             *)
(***************************************************************************)
\* the entry function with its callback argument: through psi_sor_solve at
\* time step 0, or a solver called directly as the unit tests do (at time
\* step -1 "for no output")
ViaSolve ==
  { [entry |-> "solve", fepsilon |-> f, its |-> 0] :
      f \in {"NULL", "constant", "varying"} }

Direct ==
  { [entry |-> "poisson", fepsilon |-> "NULL",     its |-> -1],
    [entry |-> "vare",    fepsilon |-> "constant", its |-> -1],
    [entry |-> "vare",    fepsilon |-> "NULL",     its |-> -1] }

\* <<tol_abs, tol_rel>>, tol_rel in hundredths: never met, met by the
\* absolute or by the relative test after some sweeps, met at once
Tolerances == { <<0, 0>>, <<400, 0>>, <<20, 50>>, <<100000, 0>> }

\* local extents and charge distribution
Lattices ==
  { [nlocal |-> <<2, 2, 2>>, charge |-> "pair"],
    [nlocal |-> <<2, 2, 4>>, charge |-> "wall"] }

CartSizes == { <<1, 1, 1>>, <<2, 1, 1>> }

MkObj(l, cartsz, tol, maxits) ==
  [ nlocal |-> l.nlocal, cartsz |-> cartsz, charge |-> l.charge,
    epsilon |-> Epsilon, beta |-> 1, eunit |-> 1, valency |-> <<1, -1>>,
    tol_abs |-> tol[1], tol_rel |-> tol[2], maxits |-> maxits, nfreq |-> 2 ]

\* the solves followed: <<obj, arg>>
Configs ==
  \* psi_sor_solve on the charged lattices
  { << MkObj(l, c, t, m), a >> :
      l \in Lattices, c \in CartSizes, t \in Tolerances, m \in 0..MaxIts,
      a \in ViaSolve }
  \cup
  \* the solvers called directly
  { << MkObj([nlocal |-> <<2, 2, 2>>, charge |-> "pair"], c, t, m), a >> :
      c \in CartSizes, t \in { <<0, 0>>, <<100000, 0>> }, m \in 0..2,
      a \in Direct }
  \cup
  \* no charge at all: the potential 0 is the solution
  { << MkObj([nlocal |-> <<2, 2, 2>>, charge |-> "none"], c, t, m), a >> :
      c \in CartSizes, t \in { <<0, 0>>, <<100000, 0>> }, m \in 0..2,
      a \in ViaSolve }
  \cup
  \* other even local extents, and a maximum number of iterations below 0
  { << MkObj([nlocal |-> e, charge |-> "pair"], <<1, 1, 1>>, <<0, 0>>, m),
       a >> :
      e \in { <<4, 2, 2>>, <<2, 4, 2>> }, m \in {-1, 1}, a \in ViaSolve }
  \cup
  \* local extents that are not all even
  { << MkObj([nlocal |-> e, charge |-> "pair"], c, <<0, 0>>, 1), a >> :
      e \in { <<2, 2, 3>>, <<1, 2, 2>>, <<2, 3, 2>> }, c \in CartSizes,
      a \in ViaSolve }

\* the charge densities <<rho[0], rho[1]>> at the site of global coordinates
\* g: test_charge1_set ("wall", scaled to integers), no charge at all, or a
\* pair of opposite charges next to each other along X
ChargeAt(o, g) ==
  LET lz == o.nlocal[Z] * o.cartsz[Z]
  IN  CASE o.charge = "wall" ->
             IF g[3] = 1 \/ g[3] = lz THEN << 300 * (lz - 2), 0 >>
             ELSE << 0, 600 >>
        [] o.charge = "pair" ->
             IF g = <<1, 1, 1>> THEN << 2400, 0 >>
             ELSE IF g = <<2, 1, 1>> THEN << 0, 2400 >>
             ELSE << 0, 0 >>
        [] OTHER -> << 0, 0 >>

\* cs_nlocal_offset: offset = process coordinate x local extent
cs_nlocal_offset(o, p) == << p * o.nlocal[X], 0, 0 >>

InitRho(o, p) ==
  [i \in Sites(o.nlocal) |->
     LET c   == cs_index_to_ijk(o.nlocal, i)
         off == cs_nlocal_offset(o, p)
     IN  IF \A d \in 1..3 : c[d] \in 1..o.nlocal[d]
         THEN ChargeAt(o, << c[1] + off[1], c[2] + off[2], c[3] + off[3] >>)
         ELSE << 0, 0 >>]

\* the state of every process before the first statement of the call
\* no half-sweep taken site by site
NoSweep == [left |-> {}, from |-> << >>, omega |-> 0, inorder |-> TRUE]

Start ==
  /\ psi = [p \in Procs |-> [i \in Sites(obj.nlocal) |-> 0]]
  /\ rho = [p \in Procs |-> InitRho(obj, p)]
  /\ pc = [p \in Procs |-> IF arg.entry = "solve" THEN "solve1" ELSE "enter"]
  /\ fn = [p \in Procs |-> IF arg.entry = "solve" THEN "none" ELSE arg.entry]
  /\ caller = [p \in Procs |-> IF arg.entry = "solve" THEN "none" ELSE "test"]
  /\ calls = [p \in Procs |->
                IF arg.entry = "solve" THEN << >> ELSE << arg.entry >>]
  /\ n = [p \in Procs |-> 0]
  /\ pass = [p \in Procs |-> 0]
  /\ omega = [p \in Procs |-> 0]
  /\ rnorm_local = [p \in Procs |-> << 0, 0 >>]
  /\ rnorm = [p \in Procs |-> << 0, 0 >>]
  /\ chan = [c \in Procs \X Directions |-> << >>]
  /\ posted = [p \in Procs |-> << >>]
  /\ info = [p \in Procs |-> << >>]
  /\ evlog = [p \in Procs |-> << >>]
  /\ brk = [p \in Procs |-> FALSE]
  /\ fnret = [p \in Procs |-> << >>]
  /\ ret = [p \in Procs |-> << >>]
  /\ nwrite = [p \in Procs |-> [i \in Sites(obj.nlocal) |-> 0]]
  /\ todo = [p \in Procs |-> NoSweep]

Init ==
  /\ \E c \in Configs : obj = c[1] /\ arg = c[2]
  /\ Start

(***************************************************************************)
(* psi_sor_solve.                                                          *)
(***************************************************************************)
\* the call of a solver: control passes to its first statement
Call(p, f, from) ==
  /\ pc' = [pc EXCEPT ![p] = "enter"]
  /\ fn' = [fn EXCEPT ![p] = f]
  /\ caller' = [caller EXCEPT ![p] = from]
  /\ calls' = [calls EXCEPT ![p] = Append(@, f)]

\* if (fepsilon == NULL) psi_sor_poisson(obj, its);
SolveIfNull(p) ==
  /\ At(p, "solve1")
  /\ IF arg.fepsilon = "NULL"
     THEN Call(p, "poisson", "solve1")
     ELSE /\ pc' = [pc EXCEPT ![p] = "solve2"]
          /\ UNCHANGED << fn, caller, calls >>
  /\ UNCHANGED << obj, arg, psi, rho, n, pass, omega, rnorm_local, rnorm,
                  chan, posted, info, evlog, brk, fnret, ret, nwrite, todo >>

\* a faulty variant of SolveIfNotNull: the call without its condition
SolveIfNotNull_always(p) ==
  /\ At(p, "solve2")
  /\ Call(p, "vare", "solve2")
  /\ UNCHANGED << obj, arg, psi, rho, n, pass, omega, rnorm_local, rnorm,
                  chan, posted, info, evlog, brk, fnret, ret, nwrite, todo >>

\* if (fepsilon != NULL) psi_sor_vare_poisson(obj, fe, fepsilon, its);
SolveIfNotNull(p) ==
  /\ At(p, "solve2")
  /\ IF arg.fepsilon # "NULL"
     THEN Call(p, "vare", "solve2")
     ELSE /\ pc' = [pc EXCEPT ![p] = "solve_ret"]
          /\ UNCHANGED << fn, caller, calls >>
  /\ UNCHANGED << obj, arg, psi, rho, n, pass, omega, rnorm_local, rnorm,
                  chan, posted, info, evlog, brk, fnret, ret, nwrite, todo >>

\* the value of the return statement of psi_sor_solve
SolveReturnValue == 0

\* return 0;
SolveReturn(p) ==
  /\ At(p, "solve_ret")
  /\ pc' = [pc EXCEPT ![p] = "returned"]
  /\ ret' = [ret EXCEPT ![p] = << SolveReturnValue >>]
  /\ UNCHANGED << obj, arg, psi, rho, fn, caller, n, pass, omega,
                  rnorm_local, rnorm, chan, posted, info, evlog, brk, fnret,
                  calls, nwrite, todo >>

(***************************************************************************)
(* psi_sor_poisson and psi_sor_vare_poisson.                               *)
(***************************************************************************)
\* a faulty variant of EntryAsserts: the extent along Z is not looked at
EntryAsserts_noz(f, o, a) ==
  /\ f = "poisson" => NHalo >= 1
  /\ f = "vare" => a.fepsilon # "NULL"
  /\ o.nlocal[X] % 2 = 0
  /\ o.nlocal[Y] % 2 = 0

\* a faulty variant of EntryAsserts: the extent along X is not looked at
EntryAsserts_nox(f, o, a) ==
  /\ f = "poisson" => NHalo >= 1
  /\ f = "vare" => a.fepsilon # "NULL"
  /\ o.nlocal[Y] % 2 = 0
  /\ o.nlocal[Z] % 2 = 0

\* the assertions on entry
EntryAsserts(f, o, a) ==
  /\ f = "poisson" => NHalo >= 1
  /\ f = "vare" => a.fepsilon # "NULL"
  /\ o.nlocal[X] % 2 = 0
  /\ o.nlocal[Y] % 2 = 0
  /\ o.nlocal[Z] % 2 = 0

\* from the first statement to omega = 1.0: the assertions, the parameters
\* and the initial norm of the residual
Enter(p) ==
  /\ At(p, "enter")
  /\ IF EntryAsserts(fn[p], obj, arg)
     THEN /\ rnorm_local' = [rnorm_local EXCEPT ![p] =
               << InitialNorm(fn[p], obj, arg.fepsilon, psi[p], rho[p]), 0 >>]
          /\ omega' = [omega EXCEPT ![p] = Scale]
          /\ n' = [n EXCEPT ![p] = 0]
          /\ pc' = [pc EXCEPT ![p] = "loop"]
     ELSE /\ pc' = [pc EXCEPT ![p] = "abort"]
          /\ UNCHANGED << rnorm_local, omega, n >>
  /\ UNCHANGED << obj, arg, psi, rho, fn, caller, pass, rnorm, chan, posted,
                  info, evlog, brk, fnret, ret, calls, nwrite, todo >>

\* a faulty variant of LoopCondition: <= in place of <
LoopCondition_le(o, nn) == nn <= o.maxits

\* n < niteration
LoopCondition(o, nn) == nn < o.maxits

\* for (n = 0; n < niteration; n++) { rnorm_local[1] = 0.0; pass = 0
LoopTest(p) ==
  /\ At(p, "loop")
  /\ IF LoopCondition(obj, n[p])
     THEN /\ rnorm_local' = [rnorm_local EXCEPT ![p][2] = 0]
          /\ pass' = [pass EXCEPT ![p] = 0]
          /\ nwrite' = [nwrite EXCEPT ![p] = [i \in DOMAIN @ |-> 0]]
          /\ pc' = [pc EXCEPT ![p] = "sweep"]
     ELSE /\ pc' = [pc EXCEPT ![p] = "exit"]
          /\ UNCHANGED << rnorm_local, pass, nwrite >>
  /\ UNCHANGED << obj, arg, psi, rho, fn, caller, n, omega, rnorm, chan,
                  posted, info, evlog, brk, fnret, ret, calls, todo >>

\* the loops over ic, jc, kc of one pass
Sweep(p) ==
  /\ At(p, "sweep")
  /\ \E st \in { HalfSweep(fn[p], obj, arg.fepsilon, rho[p], omega[p],
                             [psi |-> psi[p], rl1 |-> rnorm_local[p][2],
                              nwrite |-> nwrite[p]], pass[p]) } :
         /\ psi' = [psi EXCEPT ![p] = st.psi]
         /\ rnorm_local' = [rnorm_local EXCEPT ![p][2] = st.rl1]
         /\ nwrite' = [nwrite EXCEPT ![p] = st.nwrite]
  /\ evlog' = [evlog EXCEPT ![p] =
                 Append(@, IF pass[p] = 0 THEN "sweep0" ELSE "sweep1")]
  /\ pc' = [pc EXCEPT ![p] = IF fn[p] = "poisson" THEN "omega" ELSE "halo"]
  /\ UNCHANGED << obj, arg, rho, fn, caller, n, pass, omega, rnorm, chan,
                  posted, info, brk, fnret, ret, calls, todo >>

\* psi_sor_poisson: recompute the relaxation parameter after the pass, with
\* the two assertions
OmegaRecompute(p) ==
  /\ At(p, "omega")
  /\ omega' = [omega EXCEPT ![p] = OmegaPoisson(RadiusOf, @, n[p], pass[p])]
  /\ pc' = [pc EXCEPT ![p] =
              IF OmegaAsserts(omega'[p]) THEN "halo" ELSE "abort"]
  /\ UNCHANGED << obj, arg, psi, rho, fn, caller, n, pass, rnorm_local,
                  rnorm, chan, posted, info, evlog, brk, fnret, ret, calls,
                  nwrite, todo >>

\* where the solver goes on after the halo exchange of a pass
AfterHalo(f, ps) ==
  IF ps + 1 < 2 THEN "sweep" ELSE IF f = "poisson" THEN "check" ELSE "omega_v"

\* a faulty variant of HaloSend: the pass ends without a halo exchange
HaloSend_skipped(p) ==
  /\ At(p, "halo")
  /\ pass' = [pass EXCEPT ![p] = @ + 1]
  /\ pc' = [pc EXCEPT ![p] = AfterHalo(fn[p], pass[p])]
  /\ UNCHANGED << obj, arg, psi, rho, fn, caller, n, omega, rnorm_local,
                  rnorm, chan, posted, info, evlog, brk, fnret, ret, calls,
                  nwrite, todo >>

\* psi_halo_psi: the sends along X to the two neighbours (none when the
\* process is its own neighbour)
HaloSend(p) ==
  /\ At(p, "halo")
  /\ chan' = IF obj.cartsz[X] = 1 THEN chan
             ELSE [chan EXCEPT
                     ![<<p, "FORWARD">>] =
                        Append(@, PackX(obj.nlocal, psi[p], obj.nlocal[X])),
                     ![<<p, "BACKWARD">>] =
                        Append(@, PackX(obj.nlocal, psi[p], 1))]
  /\ pc' = [pc EXCEPT ![p] = "halo_wait"]
  /\ UNCHANGED << obj, arg, psi, rho, fn, caller, n, pass, omega,
                  rnorm_local, rnorm, posted, info, evlog, brk, fnret, ret,
                  calls, nwrite, todo >>

\* a faulty variant of HaloRecv: the planes are received and dropped, the
\* ghost sites keep what they held
HaloRecv_stale(p) ==
  /\ At(p, "halo_wait")
  /\ LET b == cs_cart_neighb(obj.cartsz[X], p, "BACKWARD")
         f == cs_cart_neighb(obj.cartsz[X], p, "FORWARD")
     IN  IF obj.cartsz[X] = 1
         THEN chan' = chan
         ELSE /\ chan[<<b, "FORWARD">>] # << >>
              /\ chan[<<f, "BACKWARD">>] # << >>
              /\ chan' = [c \in DOMAIN chan |->
                            IF c = <<b, "FORWARD">> \/ c = <<f, "BACKWARD">>
                            THEN Tail(chan[c]) ELSE chan[c]]
  /\ evlog' = [evlog EXCEPT ![p] = Append(@, "halo")]
  /\ pass' = [pass EXCEPT ![p] = @ + 1]
  /\ pc' = [pc EXCEPT ![p] = AfterHalo(fn[p], pass[p])]
  /\ UNCHANGED << obj, arg, psi, rho, fn, caller, n, omega, rnorm_local,
                  rnorm, posted, info, brk, fnret, ret, calls, nwrite, todo >>

\* psi_halo_psi completes (it blocks until the planes of both neighbours
\* have arrived), then psi_halo_psijump (no external field: no jump), then
\* pass++
HaloRecv(p) ==
  /\ At(p, "halo_wait")
  /\ LET b == cs_cart_neighb(obj.cartsz[X], p, "BACKWARD")
         f == cs_cart_neighb(obj.cartsz[X], p, "FORWARD")
     IN  IF obj.cartsz[X] = 1
         THEN /\ psi' = [psi EXCEPT ![p] =
                   HaloUnpack(obj.nlocal, @,
                              PackX(obj.nlocal, @, obj.nlocal[X]),
                              PackX(obj.nlocal, @, 1))]
              /\ chan' = chan
         ELSE /\ chan[<<b, "FORWARD">>] # << >>
              /\ chan[<<f, "BACKWARD">>] # << >>
              /\ psi' = [psi EXCEPT ![p] =
                   HaloUnpack(obj.nlocal, @, Head(chan[<<b, "FORWARD">>]),
                              Head(chan[<<f, "BACKWARD">>]))]
              /\ chan' = [c \in DOMAIN chan |->
                            IF c = <<b, "FORWARD">> \/ c = <<f, "BACKWARD">>
                            THEN Tail(chan[c]) ELSE chan[c]]
  /\ evlog' = [evlog EXCEPT ![p] = Append(@, "halo")]
  /\ pass' = [pass EXCEPT ![p] = @ + 1]
  /\ pc' = [pc EXCEPT ![p] = AfterHalo(fn[p], pass[p])]
  /\ UNCHANGED << obj, arg, rho, fn, caller, n, omega, rnorm_local, rnorm,
                  posted, info, brk, fnret, ret, calls, nwrite, todo >>

\* a faulty variant of OmegaVare: the seed after the first full sweep
OmegaVare_seed(p) ==
  /\ At(p, "omega_v")
  /\ omega' = [omega EXCEPT ![p] = OmegaPoisson(RadiusOf, @, n[p], 0)]
  /\ pc' = [pc EXCEPT ![p] = "check"]
  /\ UNCHANGED << obj, arg, psi, rho, fn, caller, n, pass, rnorm_local,
                  rnorm, chan, posted, info, evlog, brk, fnret, ret, calls,
                  nwrite, todo >>

\* psi_sor_vare_poisson: recompute the relaxation parameter after the two
\* passes
OmegaVare(p) ==
  /\ At(p, "omega_v")
  /\ omega' = [omega EXCEPT ![p] = OmegaNext(RadiusOf, @)]
  /\ pc' = [pc EXCEPT ![p] = "check"]
  /\ UNCHANGED << obj, arg, psi, rho, fn, caller, n, pass, rnorm_local,
                  rnorm, chan, posted, info, evlog, brk, fnret, ret, calls,
                  nwrite, todo >>

\* if ((n % ncheck) == 0): the process enters MPI_Allreduce with its
\* rnorm_local; otherwise the rest of the body (in psi_sor_vare_poisson the
\* report of the last iteration is inside the if)
Check(p) ==
  /\ At(p, "check")
  /\ IF n[p] % NCheck(fn[p]) = 0
     THEN /\ posted' = [posted EXCEPT ![p] = Append(@, rnorm_local[p])]
          /\ pc' = [pc EXCEPT ![p] = "reduce_wait"]
     ELSE /\ pc' = [pc EXCEPT ![p] =
                      IF fn[p] = "poisson" THEN "report" ELSE "incr"]
          /\ UNCHANGED posted
  /\ UNCHANGED << obj, arg, psi, rho, fn, caller, n, pass, omega,
                  rnorm_local, rnorm, chan, info, evlog, brk, fnret, ret,
                  calls, nwrite, todo >>

\* MPI_Allreduce returns once every process has entered it
AllreduceDone(p) ==
  /\ At(p, "reduce_wait")
  /\ \A q \in Procs : Len(posted[q]) >= Len(posted[p])
  /\ rnorm' = [rnorm EXCEPT ![p] =
                 MPI_Allreduce(posted, Procs, p, Len(posted[p]))]
  /\ evlog' = [evlog EXCEPT ![p] = Append(@, "reduce")]
  /\ pc' = [pc EXCEPT ![p] = "test"]
  /\ UNCHANGED << obj, arg, psi, rho, fn, caller, n, pass, omega,
                  rnorm_local, chan, posted, info, brk, fnret, ret, calls,
                  nwrite, todo >>

\* the pe_info() lines of a converged solve, when its % nfreq == 0
Converged(p, how) ==
  /\ info' = [info EXCEPT ![p] =
                IF ReportDue(obj, arg.its)
                THEN Append(@, << how, rnorm[p][2], n[p] >>) ELSE @]
  /\ brk' = [brk EXCEPT ![p] = TRUE]
  /\ pc' = [pc EXCEPT ![p] = "exit"]

\* compare residual and exit if small enough
Test(p) ==
  /\ At(p, "test")
  /\ IF BelowAbs(obj, rnorm[p]) THEN Converged(p, "absolute")
     ELSE IF SecondTest(fn[p], obj, rnorm[p]) THEN Converged(p, "relative")
     ELSE /\ pc' = [pc EXCEPT ![p] = "report"]
          /\ UNCHANGED << info, brk >>
  /\ UNCHANGED << obj, arg, psi, rho, fn, caller, n, pass, omega,
                  rnorm_local, rnorm, chan, posted, evlog, fnret, ret, calls,
                  nwrite, todo >>

\* a faulty variant of LastIteration: off by one
LastIteration_late(o, nn) == nn = o.maxits

\* n == niteration-1
LastIteration(o, nn) == nn = o.maxits - 1

\* if (n == niteration-1) { "SOR solver exceeded %d iterations" ... }
Report(p) ==
  /\ At(p, "report")
  /\ info' = [info EXCEPT ![p] =
                IF LastIteration(obj, n[p])
                THEN Append(@, << "exceeded", n[p] + 1, rnorm[p] >>) ELSE @]
  /\ pc' = [pc EXCEPT ![p] = "incr"]
  /\ UNCHANGED << obj, arg, psi, rho, fn, caller, n, pass, omega,
                  rnorm_local, rnorm, chan, posted, evlog, brk, fnret, ret,
                  calls, nwrite, todo >>

\* n++ of the for loop
Incr(p) ==
  /\ At(p, "incr")
  /\ n' = [n EXCEPT ![p] = @ + 1]
  /\ pc' = [pc EXCEPT ![p] = "loop"]
  /\ UNCHANGED << obj, arg, psi, rho, fn, caller, pass, omega, rnorm_local,
                  rnorm, chan, posted, info, evlog, brk, fnret, ret, calls,
                  nwrite, todo >>

\* the value of the return statement of the solvers
SolverReturnValue(f, broke) == 0

\* return 0; of the solver: back to psi_sor_solve, which drops the value, or
\* to the caller of the solver
Exit(p) ==
  /\ At(p, "exit")
  /\ fnret' = [fnret EXCEPT ![p] = << SolverReturnValue(fn[p], brk[p]) >>]
  /\ IF caller[p] = "test"
     THEN /\ ret' = [ret EXCEPT ![p] = fnret'[p]]
          /\ pc' = [pc EXCEPT ![p] = "returned"]
     ELSE /\ pc' = [pc EXCEPT ![p] =
                      IF caller[p] = "solve1" THEN "solve2" ELSE "solve_ret"]
          /\ UNCHANGED ret
  /\ UNCHANGED << obj, arg, psi, rho, fn, caller, n, pass, omega,
                  rnorm_local, rnorm, chan, posted, info, evlog, brk, calls,
                  nwrite, todo >>

Next ==
  \/ \E p \in Ranks : SolveIfNull(p)
  \/ \E p \in Ranks : SolveIfNotNull(p)
  \/ \E p \in Ranks : SolveReturn(p)
  \/ \E p \in Ranks : Enter(p)
  \/ \E p \in Ranks : LoopTest(p)
  \/ \E p \in Ranks : Sweep(p)
  \/ \E p \in Ranks : OmegaRecompute(p)
  \/ \E p \in Ranks : HaloSend(p)
  \/ \E p \in Ranks : HaloRecv(p)
  \/ \E p \in Ranks : OmegaVare(p)
  \/ \E p \in Ranks : Check(p)
  \/ \E p \in Ranks : AllreduceDone(p)
  \/ \E p \in Ranks : Test(p)
  \/ \E p \in Ranks : Report(p)
  \/ \E p \in Ranks : Incr(p)
  \/ \E p \in Ranks : Exit(p)

Spec == Init /\ [][Next]_vars

(***************************************************************************)
(* The half-sweep taken one site at a time, in any order: the solve with   *)
(* the site loops of a pass replaced by updates of the sites of the pass   *)
(* in an order chosen freely.                                              *)
(***************************************************************************)
\* the start of the site loops of a pass: the sites to visit
SweepStart(p) ==
  /\ At(p, "sweep")
  /\ todo' = [todo EXCEPT ![p] =
                [left  |-> PassSites(obj.nlocal, pass[p]),
                 from  |-> [psi |-> psi[p], rl1 |-> rnorm_local[p][2],
                            nwrite |-> nwrite[p]],
                 omega |-> omega[p], inorder |-> TRUE]]
  /\ pc' = [pc EXCEPT ![p] = "sites"]
  /\ UNCHANGED << obj, arg, psi, rho, fn, caller, n, pass, omega,
                  rnorm_local, rnorm, chan, posted, info, evlog, brk, fnret,
                  ret, calls, nwrite >>

\* the body of the innermost loop at any one of the sites left; after the
\* last of them the pass goes on as after the site loops
SweepSite(p) ==
  /\ At(p, "sites")
  /\ \E i \in todo[p].left :
       \E st \in { UpdateSite(fn[p], obj, arg.fepsilon, rho[p], omega[p],
                              [psi |-> psi[p], rl1 |-> rnorm_local[p][2],
                               nwrite |-> nwrite[p]], i) } :
         /\ psi' = [psi EXCEPT ![p] = st.psi]
         /\ rnorm_local' = [rnorm_local EXCEPT ![p][2] = st.rl1]
         /\ nwrite' = [nwrite EXCEPT ![p] = st.nwrite]
         /\ todo' = [todo EXCEPT
                       ![p].left = @ \ {i},
                       ![p].inorder = @ /\ \A j \in todo[p].left : i <= j]
         /\ IF todo[p].left = {i}
            THEN /\ evlog' = [evlog EXCEPT ![p] =
                      Append(@, IF pass[p] = 0 THEN "sweep0" ELSE "sweep1")]
                 /\ pc' = [pc EXCEPT ![p] =
                             IF fn[p] = "poisson" THEN "omega" ELSE "halo"]
            ELSE UNCHANGED << evlog, pc >>
  /\ UNCHANGED << obj, arg, rho, fn, caller, n, pass, omega, rnorm, chan,
                  posted, info, brk, fnret, ret, calls >>

\* the solves followed site by site: psi_sor_solve for one or two sweeps
OrderConfigs ==
  { << MkObj([nlocal |-> <<2, 2, 2>>, charge |-> "pair"], <<1, 1, 1>>, t, m),
       a >> :
      t \in { <<0, 0>>, <<100000, 0>> }, m \in 1..MaxOrderIts, a \in ViaSolve }
  \cup
  { << MkObj([nlocal |-> <<2, 2, 2>>, charge |-> "pair"], <<2, 1, 1>>,
             <<0, 0>>, 1), a >> : a \in ViaSolve }
  \cup
  { << MkObj([nlocal |-> e, charge |-> "pair"], <<1, 1, 1>>, <<0, 0>>, 1),
       a >> :
      e \in { <<4, 2, 2>>, <<2, 4, 2>>, <<2, 2, 4>> }, a \in ViaSolve }

OrderInit ==
  /\ \E c \in OrderConfigs : obj = c[1] /\ arg = c[2]
  /\ Start

OrderNext ==
  \/ \E p \in Ranks : SolveIfNull(p)
  \/ \E p \in Ranks : SolveIfNotNull(p)
  \/ \E p \in Ranks : SolveReturn(p)
  \/ \E p \in Ranks : Enter(p)
  \/ \E p \in Ranks : LoopTest(p)
  \/ \E p \in Ranks : SweepStart(p)
  \/ \E p \in Ranks : SweepSite(p)
  \/ \E p \in Ranks : OmegaRecompute(p)
  \/ \E p \in Ranks : HaloSend(p)
  \/ \E p \in Ranks : HaloRecv(p)
  \/ \E p \in Ranks : OmegaVare(p)
  \/ \E p \in Ranks : Check(p)
  \/ \E p \in Ranks : AllreduceDone(p)
  \/ \E p \in Ranks : Test(p)
  \/ \E p \in Ranks : Report(p)
  \/ \E p \in Ranks : Incr(p)
  \/ \E p \in Ranks : Exit(p)

OrderSpec == OrderInit /\ [][OrderNext]_vars

(***************************************************************************)
(* The solve on long lattices, for the relaxation parameter: the global    *)
(* extents max(ltot[X], ltot[Z]) from 2 to MaxLtot.                        *)
(***************************************************************************)
\* the even extents (the local extents are even, and so are their multiples)
OmegaExtents == { l \in 2..MaxLtot : l % 2 = 0 }

OmegaConfigs ==
  { << MkObj([nlocal |-> e, charge |-> "pair"], <<1, 1, 1>>, <<0, 0>>,
             MaxOmegaIts), [entry |-> "solve", fepsilon |-> "NULL", its |-> 0] >> :
      e \in { <<l, 2, 2>> : l \in OmegaExtents }
            \cup { <<2, 2, l>> : l \in OmegaExtents } }
  \cup
  { << MkObj([nlocal |-> <<2, 2, 2>>, charge |-> "pair"], c, <<400, 0>>,
             MaxOmegaIts), a >> : c \in CartSizes, a \in ViaSolve }

OmegaInit ==
  /\ \E c \in OmegaConfigs : obj = c[1] /\ arg = c[2]
  /\ Start

OmegaSpec == OmegaInit /\ [][Next]_vars

(***************************************************************************)
(* Properties.                                                             *)
(***************************************************************************)
\* process p has left the iteration loop of its solver
LeftLoop(p) == pc[p] = "exit" \/ fnret[p] # << >>

\* the sum over all processes of component i of their k-th contributions
GlobalNorm(k, i) ==
  posted[0][k][i] + (IF 1 \in Procs THEN posted[1][k][i] ELSE 0)

\* the reduced norms of check k meet the absolute or the relative tolerance
ToleranceMet(k) ==
  \/ GlobalNorm(k, 2) < obj.tol_abs
  \/ GlobalNorm(k, 2) * 100 < obj.tol_rel * GlobalNorm(k, 1)

\* process p has reported "SOR solver exceeded ... iterations"
Exceeded(p) == \E i \in 1..Len(info[p]) : info[p][i][1] = "exceeded"

\* C1: whenever a process has left the loop by a break (converged), the
\* norms it tested are the sums over all processes of the norms accumulated
\* in the sweep just completed, and the current one is below tol_abs or
\* below tol_rel times the initial one.
C1_ConvergedBelowTolerance ==
  \A p \in Procs :
    brk[p] =>
      LET k == Len(posted[p])
      IN  /\ k >= 1
          /\ \A q \in Procs : Len(posted[q]) >= k
          /\ posted[p][k] = rnorm_local[p]
          /\ rnorm[p] = << GlobalNorm(k, 1), GlobalNorm(k, 2) >>
          /\ \/ rnorm[p][2] < obj.tol_abs
             \/ rnorm[p][2] * 100 < obj.tol_rel * rnorm[p][1]

\* C1 witness: on two processes, a solve has converged to the relative
\* tolerance (not the absolute one) after several sweeps.
C1_Witness ==
  \E p \in Procs :
    /\ brk[p] /\ obj.cartsz[X] = 2 /\ n[p] >= 1
    /\ ~ (rnorm[p][2] < obj.tol_abs)
    /\ rnorm[p][2] > 0

\* C2: a solver that has returned from a solve with max_iterations >= 1 has
\* either left the loop by a break or reported "exceeded", never both and
\* never neither, and it has reported "exceeded" (once) exactly if none of
\* its residual checks met a tolerance.
C2_ExactlyOneOutcome ==
  \A p \in Procs :
    /\ ~ (brk[p] /\ Exceeded(p))
    /\ (fnret[p] # << >> /\ obj.maxits >= 1) =>
         /\ brk[p] # Exceeded(p)
         /\ Exceeded(p) <=> ~ \E k \in 1..Len(posted[p]) : ToleranceMet(k)
         /\ Cardinality({ i \in 1..Len(info[p]) :
                            info[p][i][1] = "exceeded" }) <= 1

\* C2 witness: psi_sor_poisson has returned after two residual checks that
\* both failed, having reported "exceeded".
C2_Witness ==
  \E p \in Procs :
    /\ fnret[p] # << >> /\ fn[p] = "poisson"
    /\ Exceeded(p) /\ Len(posted[p]) >= 2

\* the value the entry function of the call returns when the solve converged
ReturnedOnConvergence ==
  IF arg.entry = "solve" THEN SolveReturnValue
  ELSE SolverReturnValue(arg.entry, TRUE)

\* C3: a solve that ended with a max-iterations exit has returned normally,
\* and the value returned to the caller differs from the value returned by
\* a solve that converged.
C3_NonConvergenceReturned ==
  \A p \in Procs :
    (Exceeded(p) /\ ~ brk[p] /\ pc[p] = "returned") =>
      ret[p] # << ReturnedOnConvergence >>

\* C3, the half of it that holds: a process that has reported "exceeded"
\* never aborts, and once returned its value is that of a converged solve.
C3_ReturnsNormally ==
  \A p \in Procs :
    Exceeded(p) =>
      /\ pc[p] # "abort"
      /\ pc[p] = "returned" => ret[p] = << ReturnedOnConvergence >>

\* every process has returned to its caller or aborted in an assertion
Terminated == \A p \in Procs : pc[p] \in {"returned", "abort"}

\* the number of events e in the log of process p
CountOf(p, e) == Cardinality({ i \in 1..Len(evlog[p]) : evlog[p][i] = e })

\* the solves followed under fairness: psi_sor_solve on the small lattice,
\* with either solver and max_iterations negative, zero, one and the
\* largest followed
FairConfigs ==
  { << MkObj([nlocal |-> <<2, 2, 2>>, charge |-> "pair"], c, t, m), a >> :
      c \in CartSizes, t \in { <<0, 0>>, <<400, 0>> },
      m \in {-1, 0, 1, MaxIts},
      a \in { v \in ViaSolve : v.fepsilon \in {"NULL", "varying"} } }

FairInit ==
  /\ \E c \in FairConfigs : obj = c[1] /\ arg = c[2]
  /\ Start

\* the scheduling of the processes: as long as some process can take a
\* step, a step is eventually taken (every process runs on a processor of
\* its own and only ever waits for a message or a reduction)
FairSpec == FairInit /\ [][Next]_vars /\ WF_vars(Next)

\* C4: no process ever starts more than max_iterations full sweeps (none,
\* and no halo exchange, reduction or report, when max_iterations <= 0), and
\* every process eventually returns or aborts.
C4_Terminates ==
  /\ [](\A p \in Procs :
          /\ CountOf(p, "sweep0") <= (IF obj.maxits > 0 THEN obj.maxits ELSE 0)
          /\ CountOf(p, "sweep1") <= CountOf(p, "sweep0")
          /\ n[p] <= (IF obj.maxits > 0 THEN obj.maxits ELSE 0)
          /\ obj.maxits <= 0 =>
               evlog[p] = << >> /\ posted[p] = << >> /\ info[p] = << >>)
  /\ <>[]Terminated

\* C4 witness: all processes of a two-process solve have returned after
\* exactly max_iterations full sweeps without converging.
C4_Witness ==
  /\ Terminated /\ obj.cartsz[X] = 2 /\ obj.maxits >= 2
  /\ \A p \in Procs :
       /\ pc[p] = "returned" /\ ~ brk[p]
       /\ CountOf(p, "sweep1") = obj.maxits

\* s is a prefix of t
IsPrefix(s, t) == Len(s) <= Len(t) /\ \A i \in 1..Len(s) : s[i] = t[i]

\* process p waits in a halo exchange or a reduction for another process
Blocked(p) ==
  \/ /\ pc[p] = "halo_wait" /\ obj.cartsz[X] > 1
     /\ \/ chan[<<cs_cart_neighb(obj.cartsz[X], p, "BACKWARD"), "FORWARD">>]
             = << >>
        \/ chan[<<cs_cart_neighb(obj.cartsz[X], p, "FORWARD"), "BACKWARD">>]
             = << >>
  \/ /\ pc[p] = "reduce_wait"
     /\ \E q \in Procs : Len(posted[q]) < Len(posted[p])

\* C5: the processes go through the same sequence of half-sweeps, halo
\* exchanges and reductions and leave the loop at the same n in the same way;
\* no process waits in a halo exchange or a reduction for a process that
\* has left the loop, and the processes never all wait or have finished
\* with one of them waiting.
C5_SameControlFlow ==
  /\ \A p, q \in Procs :
       /\ IsPrefix(evlog[p], evlog[q]) \/ IsPrefix(evlog[q], evlog[p])
       /\ (LeftLoop(p) /\ LeftLoop(q)) =>
            n[p] = n[q] /\ brk[p] = brk[q] /\ evlog[p] = evlog[q]
       /\ LeftLoop(q) => ~ Blocked(p)
  /\ ~ (/\ \E p \in Procs : Blocked(p)
        /\ \A q \in Procs : Blocked(q) \/ pc[q] \in {"returned", "abort"})

\* C5 witness: two processes with different local norms have both left the
\* loop by a break after several sweeps.
C5_Witness ==
  /\ obj.cartsz[X] = 2
  /\ \A p \in Procs : LeftLoop(p) /\ brk[p] /\ n[p] >= 1
  /\ posted[0][1] # posted[1][1]

\* the last event of process p, "" if none
LastEvent(p) == IF evlog[p] = << >> THEN "" ELSE evlog[p][Len(evlog[p])]

\* C6: in the log of every process each half-sweep is directly followed by a
\* completed halo exchange; a full sweep is sweep 0, halo, sweep 1, halo; a
\* reduction follows the second halo exchange of a full sweep; and no
\* half-sweep or residual check starts before the halo exchange of the
\* half-sweep before it has completed.
C6_HaloAfterHalfSweep ==
  \A p \in Procs :
    /\ \A i \in 1..Len(evlog[p]) :
         LET e == evlog[p]
         IN  /\ e[i] = "sweep0" => (i = 1 \/ e[i-1] \in {"halo", "reduce"})
             /\ e[i] = "sweep1" =>
                  i >= 3 /\ e[i-1] = "halo" /\ e[i-2] = "sweep0"
             /\ e[i] = "halo" => i >= 2 /\ e[i-1] \in {"sweep0", "sweep1"}
             /\ e[i] = "reduce" =>
                  i >= 5 /\ e[i-1] = "halo" /\ e[i-2] = "sweep1"
             /\ (e[i] \in {"sweep0", "sweep1"} /\ i < Len(e)) =>
                  e[i+1] = "halo"
    /\ pc[p] = "sweep" => LastEvent(p) \in {"", "halo", "reduce"}
    /\ pc[p] \in {"check", "reduce_wait", "omega_v"} => LastEvent(p) = "halo"
    /\ pc[p] = "test" => LastEvent(p) = "reduce"

\* C6 witness: on two processes, a process is about to test the residual of
\* its second checked sweep.
C6_Witness ==
  \E p \in Procs :
    /\ obj.cartsz[X] = 2 /\ pc[p] = "test"
    /\ CountOf(p, "reduce") = 2 /\ CountOf(p, "halo") >= 4

\* process p is in the body of the iteration loop
InBody(p) ==
  pc[p] \in {"sweep", "omega", "halo", "halo_wait", "omega_v", "check",
             "reduce_wait", "test", "report", "incr"}

\* the half-sweeps process p has completed in the current full sweep
HalfSweepsDone(p) ==
  IF pc[p] = "sweep" THEN pass[p]
  ELSE IF pc[p] \in {"omega", "halo", "halo_wait"} THEN pass[p] + 1
  ELSE 2

\* the colour of a site: the parity of ic + jc + kc
Colour(nlocal, index) ==
  LET c == cs_index_to_ijk(nlocal, index) IN (c[1] + c[2] + c[3]) % 2

\* the site is an interior one: 1 <= ic, jc, kc <= nlocal
IsInterior(nlocal, index) ==
  LET c == cs_index_to_ijk(nlocal, index)
  IN  \A d \in 1..3 : 1 <= c[d] /\ c[d] <= nlocal[d]

\* C7: in the body of the loop, the sites written since the start of the
\* full sweep are exactly the interior sites of the colours of the
\* half-sweeps completed (pass 0 the odd colour, pass 1 the even one), each
\* written once; after both half-sweeps that is every interior site once,
\* and no halo site is ever written by a half-sweep.
C7_HalfSweepsPartition ==
  \A p \in Procs :
    InBody(p) =>
      \A i \in Sites(obj.nlocal) :
        nwrite[p][i] =
          IF /\ IsInterior(obj.nlocal, i)
             /\ \E ps \in 0 .. HalfSweepsDone(p) - 1 :
                  Colour(obj.nlocal, i) = (1 + ps) % 2
          THEN 1 ELSE 0

\* C7 witness: on the 2 x 2 x 4 lattice a process has completed both
\* half-sweeps of its second full sweep, and 16 sites have been written.
C7_Witness ==
  \E p \in Procs :
    /\ obj.nlocal = <<2, 2, 4>> /\ n[p] = 1
    /\ pc[p] = "halo_wait" /\ pass[p] = 1
    /\ Cardinality({ i \in Sites(obj.nlocal) : nwrite[p][i] = 1 }) = 16

\* the solver psi_sor_solve is to call: fepsilon NULL or not
SolverFor(a) == IF a.fepsilon = "NULL" THEN "poisson" ELSE "vare"

\* C10: a call of psi_sor_solve calls no solver but the one its fepsilon
\* selects (psi_sor_poisson exactly if fepsilon is NULL), calls it at most
\* once, runs no other solver, and has called it exactly once by the time
\* it reaches its return statement.
C10_ExactlyOneSolver ==
  \A p \in Procs :
    arg.entry = "solve" =>
      /\ calls[p] \in { << >>, << SolverFor(arg) >> }
      /\ pc[p] = "solve1" => calls[p] = << >>
      /\ fn[p] # "none" => fn[p] = SolverFor(arg) /\ calls[p] # << >>
      /\ pc[p] \in {"solve_ret", "returned"} => calls[p] = << SolverFor(arg) >>

\* C10 witness: psi_sor_solve has returned after psi_sor_vare_poisson, its
\* only call, ran a sweep with the varying permittivity.
C10_Witness ==
  \E p \in Procs :
    /\ arg.entry = "solve" /\ arg.fepsilon = "varying"
    /\ pc[p] = "returned" /\ ret[p] # << >>
    /\ calls[p] = << "vare" >> /\ evlog[p] # << >>

\* the interior site whose value a storage site holds after a halo exchange:
\* along an axis of one process a halo site is the copy of the site a
\* period away; along a decomposed axis it is the copy of a site of the
\* neighbouring process and has no owner here
PeriodicOwner(o, index) ==
  LET c == cs_index_to_ijk(o.nlocal, index)
      w == [d \in 1..3 |->
              IF o.cartsz[d] = 1
              THEN 1 + ((c[d] - 1 + o.nlocal[d]) % o.nlocal[d]) ELSE c[d]]
  IN  cs_index(o.nlocal, w[1], w[2], w[3])

\* C8: while a half-sweep is under way no site read by the stencil of a
\* site of the half-sweep is a site of the half-sweep, nor a halo copy of
\* one across the period of an axis held by one process; and once the sites
\* have all been updated, in whatever order, the potential is the one the
\* loops of the code produce in their own order.
C8_OrderIndependent ==
  \A p \in Procs :
    /\ pc[p] = "sites" =>
         \E S \in { PassSites(obj.nlocal, pass[p]) } :
           \A i \in S :
             \A a \in StencilNeighbours(obj.nlocal, i) :
               a \notin S /\ PeriodicOwner(obj, a) \notin S
    /\ (pc[p] \in {"omega", "halo"} /\ todo[p].from # << >>) =>
         LET st == HalfSweep(fn[p], obj, arg.fepsilon, rho[p], todo[p].omega,
                             todo[p].from, pass[p])
         IN  psi[p] = st.psi

\* C8 witness: the black half-sweep of a second sweep has been completed
\* with its sites taken in another order than that of the loops, and it has
\* changed the potential.
C8_Witness ==
  \E p \in Procs :
    /\ pc[p] \in {"omega", "halo"} /\ pass[p] = 1 /\ n[p] = 1
    /\ todo[p].from # << >> /\ todo[p].left = {} /\ ~ todo[p].inorder
    /\ psi[p] # todo[p].from.psi

\* omega lies strictly between 1 and 2
InRange(w) == Scale < w /\ w < 2 * Scale

\* process p has not yet recomputed omega: it has done no half-sweep, or
\* the first one only and is about to recompute
BeforeFirstRecompute(p) ==
  \/ evlog[p] = << >>
  \/ evlog[p] = << "sweep0" >> /\ pc[p] = "omega"

FaceFlux2(o, fe, f, index) ==
  LET st == cs_strides(o.nlocal)
      face(a) == (fepsilon(fe, o.nlocal, index) + fepsilon(fe, o.nlocal, a))
                 * (f[a] - f[index])
  IN    face(index + st.xs) + face(index - st.xs)
      + face(index + st.ys) + face(index - st.ys)
      + face(index + st.zs) + face(index - st.zs)

\* the quarters of depsi at a site lose nothing to the integer division:
\* along each axis the two products that are quartered differ by a
\* multiple of 4
ExactQuarters(o, fe, f, index) ==
  LET st == cs_strides(o.nlocal)
      gap(s) == (fepsilon(fe, o.nlocal, index + s)
                 - fepsilon(fe, o.nlocal, index - s))
                * (f[index + s] - f[index - s])
  IN  gap(st.xs) % 4 = 0 /\ gap(st.ys) % 4 = 0 /\ gap(st.zs) % 4 = 0

\* C11: in psi_sor_vare_poisson, at every interior site of every potential
\* met during a solve, depsi is the flux-conservative operator (the sum
\* over the faces of the mean coefficient times the difference of
\* potential), and the relaxation divides by the coefficient at the site.
C11_FluxConservative ==
  \A p \in Procs :
    (fn[p] = "vare" /\ InBody(p)) =>
      \A i \in Sites(obj.nlocal) :
        (IsInterior(obj.nlocal, i)
           /\ ExactQuarters(obj, arg.fepsilon, psi[p], i)) =>
          /\ 2 * Depsi(obj, arg.fepsilon, psi[p], i)
               = FaceFlux2(obj, arg.fepsilon, psi[p], i)
          /\ RelaxEps(fn[p], obj, arg.fepsilon, i)
               = fepsilon(arg.fepsilon, obj.nlocal, i)

\* C11, the part of it that holds: the relaxation divides by the
\* coefficient at the site, and with equal coefficients at the site and its
\* six neighbours depsi is the flux-conservative operator.
C11_CentreCoefficient ==
  \A p \in Procs :
    (fn[p] = "vare" /\ InBody(p)) =>
      \A i \in Sites(obj.nlocal) :
        IsInterior(obj.nlocal, i) =>
          /\ RelaxEps(fn[p], obj, arg.fepsilon, i)
               = fepsilon(arg.fepsilon, obj.nlocal, i)
          /\ arg.fepsilon = "constant" =>
               2 * Depsi(obj, arg.fepsilon, psi[p], i)
                 = FaceFlux2(obj, arg.fepsilon, psi[p], i)

\* C12: for every potential, charge density and omega a half-sweep of a
\* solve starts from (in either solver), the residual and the relaxed value that
\* psi_sor_vare_poisson computes at an interior site with the constant
\* callback are those psi_sor_poisson computes with that constant as
\* permittivity.
C12_ConstantIsUniform ==
  \A p \in Procs :
    pc[p] = "sweep" =>
      \A i \in Sites(obj.nlocal) :
        IsInterior(obj.nlocal, i) =>
          /\ fepsilon("constant", obj.nlocal, i) = obj.epsilon
          /\ ResidualVare(obj, "constant", psi[p], rho[p], i)
               = ResidualPoisson(obj, psi[p], rho[p], i)
          /\ Relax(psi[p][i], omega[p],
                   ResidualVare(obj, "constant", psi[p], rho[p], i),
                   RelaxEps("vare", obj, "constant", i))
               = Relax(psi[p][i], omega[p],
                       ResidualPoisson(obj, psi[p], rho[p], i),
                       RelaxEps("poisson", obj, "NULL", i))

\* C12 witness: psi_sor_vare_poisson with the constant callback is about to
\* start a half-sweep of its second sweep, at a site whose residual is not
\* zero and whose neighbours along x differ in potential.
C12_Witness ==
  \E p \in Procs :
    /\ fn[p] = "vare" /\ arg.fepsilon = "constant"
    /\ pc[p] = "sweep" /\ n[p] = 1
    /\ \E i \in Sites(obj.nlocal) :
         /\ IsInterior(obj.nlocal, i)
         /\ ResidualVare(obj, "constant", psi[p], rho[p], i) # 0
         /\ psi[p][i + cs_strides(obj.nlocal).xs]
              # psi[p][i - cs_strides(obj.nlocal).xs]

\* the smaller and the larger of two numbers
Min2(a, b) == IF a < b THEN a ELSE b
Max2(a, b) == IF a < b THEN b ELSE a

\* the charge density rho_elec along z at ic = jc = 1, as test_charge1_exact
\* reads it
RhoAlongZ(p, k) == psi_rho_elec(obj, rho[p], cs_index(obj.nlocal, 1, 1, k))

\* the solution b of the tridiagonal system of test_charge1_exact for a
\* constant permittivity (rows eps*(b[k-1] - 2 b[k] + b[k+1]) = -rho[k], with
\* nothing beyond the two ends), obtained by direct elimination: the inverse
\* of the matrix has the entries -min(k,j)*(nz+1-max(k,j))/(nz+1)
SumTo(F(_), j) == IF j = 0 THEN 0 ELSE IF j = 1 THEN F(1)
                  ELSE IF j = 2 THEN F(1) + F(2)
                  ELSE IF j = 3 THEN F(1) + F(2) + F(3)
                  ELSE F(1) + F(2) + F(3) + F(4)

DirectSolution(p, k) ==
  LET nz == obj.nlocal[Z]
      term(j) == Min2(k, j) * (nz + 1 - Max2(k, j)) * RhoAlongZ(p, j)
  IN  TDiv(SumTo(term, nz), (nz + 1) * obj.epsilon)

\* the difference between the direct solution and the potential of the
\* solver along z, the latter less its value at k = 1
DirectError(p, k) ==
  fabs(DirectSolution(p, k)
       - (psi[p][cs_index(obj.nlocal, 1, 1, k)]
          - psi[p][cs_index(obj.nlocal, 1, 1, 1)]))

\* a solve of the wall-charge problem with constant permittivity
WallProblem ==
  obj.charge = "wall" /\ arg.fepsilon \in {"NULL", "constant"}

\* C13: when a solver has converged on the wall-charge problem (uniform
\* solver, or variable-coefficient solver with the constant callback), the
\* potential along z less its value at the first plane differs from the
\* direct solution of the tridiagonal system by less than the absolute
\* tolerance.
C13_MatchesDirectSolve ==
  \A p \in Procs :
    (WallProblem /\ brk[p] /\ fnret[p] # << >>) =>
      \A k \in 1..obj.nlocal[Z] : DirectError(p, k) < obj.tol_abs

\* C13, a part of it that holds here: when the solver stopped because the
\* norm of the residual was below the absolute tolerance, the potential
\* matches the direct solution within that tolerance.
C13_AbsoluteStop ==
  \A p \in Procs :
    (WallProblem /\ brk[p] /\ fnret[p] # << >>
       /\ rnorm[p][2] < obj.tol_abs) =>
      \A k \in 1..obj.nlocal[Z] : DirectError(p, k) < obj.tol_abs

(***************************************************************************)
(* The coordinate system with any halo width, process grid and periodicity *)
(* (coords.h), and the halo exchange of a field (field_halo_swap,          *)
(* field_halo_post and field_halo_wait).  The descriptor cs is a record    *)
(* [ntotal, cartsz, periodic, nhalo]; a process is named by its Cartesian  *)
(* coordinates <<px, py, pz>>, each from 0.                                *)
(***************************************************************************)
\* the largest halo width and the largest number of components followed
MaxNhalo == 2
MaxNf == 2

\* the local extents: the decomposition is exact
cs_nlocal(cs) == [d \in 1..3 |-> cs.ntotal[d] \div cs.cartsz[d]]

\* the processes of the Cartesian communicator, by cs_cart_coords
cs_cart_coords(cs) ==
  (0 .. cs.cartsz[X] - 1) \X (0 .. cs.cartsz[Y] - 1) \X (0 .. cs.cartsz[Z] - 1)

\* a faulty variant of coords_nlocal_offset: the halo counted in the extent
coords_nlocal_offset_nall(cs, p) ==
  [d \in 1..3 |-> p[d] * (cs_nlocal(cs)[d] + 2 * cs.nhalo)]

\* cs_nlocal_offset for any process grid
coords_nlocal_offset(cs, p) == [d \in 1..3 |-> p[d] * cs_nlocal(cs)[d]]

\* cs_nall, cs_nsites, cs_strides, cs_index and cs_index_to_ijk for any
\* halo width
coords_nall(cs) ==
  [d \in 1..3 |-> (cs.ntotal[d] \div cs.cartsz[d]) + 2 * cs.nhalo]

coords_nsites(cs) ==
  coords_nall(cs)[X] * coords_nall(cs)[Y] * coords_nall(cs)[Z]

\* a faulty variant of coords_strides: the strides of y and z exchanged
coords_strides_swapped(cs) ==
  LET nall == coords_nall(cs)
  IN  [xs |-> nall[Y] * nall[Z], ys |-> 1, zs |-> nall[Z]]

coords_strides(cs) ==
  LET nall == coords_nall(cs)
  IN  [xs |-> nall[Y] * nall[Z], ys |-> nall[Z], zs |-> 1]

coords_index(cs, ic, jc, kc) ==
  LET st == coords_strides(cs)
  IN    st.xs * (cs.nhalo + ic - 1)
      + st.ys * (cs.nhalo + jc - 1)
      + st.zs * (cs.nhalo + kc - 1)

coords_index_to_ijk(cs, index) ==
  LET nall == coords_nall(cs)
  IN  << 1 - cs.nhalo + (index \div (nall[Y] * nall[Z])),
         1 - cs.nhalo + ((index % (nall[Y] * nall[Z])) \div nall[Z]),
         1 - cs.nhalo + (index % nall[Z]) >>

\* no process: the coordinates no process has
MPI_PROC_NULL == << 0 - 1, 0 - 1, 0 - 1 >>

\* a faulty variant of cs_cart_shift: a shift forward whatever the direction
cs_cart_shift_forward(cs, p, dim, direction) ==
  LET q == p[dim] + 1
  IN  IF q \in 0 .. cs.cartsz[dim] - 1 THEN [p EXCEPT ![dim] = q]
      ELSE IF cs.periodic[dim] THEN [p EXCEPT ![dim] = q % cs.cartsz[dim]]
      ELSE MPI_PROC_NULL

\* cs_cart_shift (MPI_Cart_shift by one): the process one step along dim in
\* the direction, wrapped on a periodic axis, none beyond the end of an
\* axis that is not periodic
cs_cart_shift(cs, p, dim, direction) ==
  LET q == IF direction = "FORWARD" THEN p[dim] + 1 ELSE p[dim] - 1
  IN  IF q \in 0 .. cs.cartsz[dim] - 1 THEN [p EXCEPT ![dim] = q]
      ELSE IF cs.periodic[dim]
           THEN [p EXCEPT ![dim] = (q + cs.cartsz[dim]) % cs.cartsz[dim]]
           ELSE MPI_PROC_NULL

\* cs_cart_neighb(cs, forwback, dim) on the process p
coords_cart_neighb(cs, p, forwback, dim) == cs_cart_shift(cs, p, dim, forwback)

\* the other direction
Opposite(forwback) == IF forwback = "FORWARD" THEN "BACKWARD" ELSE "FORWARD"

\* the local coordinates of the owned sites, and of the sites within the
\* width nh of them along the axes in dims (the owned sites among them)
LocalRange(cs, dims, nh, d) ==
  IF d \in dims THEN (1 - nh) .. (cs_nlocal(cs)[d] + nh)
  ELSE 1 .. cs_nlocal(cs)[d]

\* test_ref_double1: the value of component k at the global coordinates g
test_ref_double1(g, k) == ((g[X] * 16 + g[Y]) * 16 + g[Z]) * 4 + k

\* the value no site of the reference field holds
Stale == 0 - 1

\* test_coords_field_set: the reference values at the owned sites
test_coords_field_set(cs, nf, p) ==
  [i \in 0 .. coords_nsites(cs) - 1 |->
     LET c   == coords_index_to_ijk(cs, i)
         off == coords_nlocal_offset(cs, p)
     IN  IF \A d \in 1..3 : c[d] \in 1 .. cs_nlocal(cs)[d]
         THEN [k \in 1..nf |->
                 test_ref_double1(<< c[X] + off[X], c[Y] + off[Y],
                                     c[Z] + off[Z] >>, k)]
         ELSE [k \in 1..nf |-> Stale]]

\* a faulty variant of SlabDims: the slab never holds ghost sites
SlabDims_interior(dim) == {}

\* the axes along which the slab exchanged along dim holds ghost sites too:
\* those exchanged before
SlabDims(dim) == { d \in 1..3 : d < dim }

\* the owned slab of width nhcomm sent in the direction forwback along dim,
\* in the local coordinates of the sender
SendSlab(cs, nhcomm, dim, forwback) ==
  LET along == IF forwback = "FORWARD"
               THEN (cs_nlocal(cs)[dim] - nhcomm + 1) .. cs_nlocal(cs)[dim]
               ELSE 1 .. nhcomm
      R(d)  == IF d = dim THEN along
               ELSE LocalRange(cs, SlabDims(dim), nhcomm, d)
  IN  R(X) \X R(Y) \X R(Z)

\* pack: the values of the slab
Pack(cs, nhcomm, f, dim, forwback) ==
  [c \in SendSlab(cs, nhcomm, dim, forwback) |->
     f[coords_index(cs, c[X], c[Y], c[Z])]]

\* unpack the slab msg received from the direction from: a neighbour
\* backward has sent its slab forward, into the ghost sites below 1
Unpack(cs, f, dim, from, msg) ==
  LET shift == IF from = "BACKWARD" THEN cs_nlocal(cs)[dim]
               ELSE 0 - cs_nlocal(cs)[dim]
  IN  [i \in DOMAIN f |->
         LET c == coords_index_to_ijk(cs, i)
             s == [c EXCEPT ![dim] = c[dim] + shift]
         IN  IF s \in DOMAIN msg THEN msg[s] ELSE f[i]]

\* the directions along dim in which the process p has a neighbour
NeighbDirs(cs, p, dim) ==
  { fb \in Directions : coords_cart_neighb(cs, p, fb, dim) # MPI_PROC_NULL }

\* the descriptors and the field shapes followed: <<cs, nf, nhcomm>>, the
\* communicated width nhcomm at most the halo width and the local extent
HaloLocal == { <<2, 2, 2>>, <<2, 3, 2>> }

HaloPeriodic ==
  { <<TRUE, TRUE, TRUE>>, <<FALSE, TRUE, TRUE>>, <<TRUE, FALSE, FALSE>> }

MkCs(l, g, per, nh) ==
  [ntotal |-> [d \in 1..3 |-> l[d] * g[d]], cartsz |-> g, periodic |-> per,
   nhalo |-> nh]

HaloConfigs ==
  \* one process
  { << MkCs(l, <<1, 1, 1>>, per, nh), nf, nhc >> :
      l \in HaloLocal, per \in HaloPeriodic, nh \in 1..MaxNhalo,
      nf \in {1, MaxNf}, nhc \in 1..2 }
  \cup
  \* two processes along one axis
  { << MkCs(<<2, 3, 2>>, g, per, nh), MaxNf, nhc >> :
      g \in { <<2, 1, 1>>, <<1, 2, 1>> }, per \in HaloPeriodic,
      nh \in {1, MaxNhalo}, nhc \in 1..2 }
  \cup
  \* three processes along X, or two along X and two along Y
  { << MkCs(<<2, 3, 2>>, c[1], c[2], MaxNhalo), c[3], 2 >> :
      c \in { << <<3, 1, 1>>, <<TRUE, TRUE, TRUE>>, 1 >>,
              << <<3, 1, 1>>, <<FALSE, TRUE, TRUE>>, 1 >>,
              << <<2, 2, 1>>, <<TRUE, TRUE, TRUE>>, MaxNf >>,
              << <<2, 2, 1>>, <<FALSE, TRUE, TRUE>>, 1 >> } }

\* the position of a process in the exchange
HaloPc(at, dim) == [at |-> at, dim |-> dim]

HaloInit ==
  /\ \E c \in HaloConfigs :
       /\ c[3] <= c[1].nhalo
       /\ obj = [cs |-> c[1], nf |-> c[2], nhcomm |-> c[3]]
  /\ arg = "field_halo_swap"
  /\ psi = [p \in cs_cart_coords(obj.cs) |->
              test_coords_field_set(obj.cs, obj.nf, p)]
  /\ pc = [p \in cs_cart_coords(obj.cs) |-> HaloPc("post", X)]
  /\ chan = [c \in cs_cart_coords(obj.cs) \X (1..3) \X Directions |-> << >>]
  /\ rho = << >> /\ fn = << >> /\ caller = << >> /\ n = << >>
  /\ pass = << >> /\ omega = << >> /\ rnorm_local = << >> /\ rnorm = << >>
  /\ posted = << >> /\ info = << >> /\ evlog = << >> /\ brk = << >>
  /\ fnret = << >> /\ ret = << >> /\ calls = << >> /\ nwrite = << >>
  /\ todo = << >>

HaloRest ==
  UNCHANGED << obj, arg, rho, fn, caller, n, pass, omega, rnorm_local, rnorm,
               posted, info, evlog, brk, fnret, ret, calls, nwrite, todo >>

\* field_halo_post along one axis: send the two owned slabs to the
\* neighbours; the slab sent forward arrives from the direction BACKWARD
FieldHaloPost(p) ==
  /\ p \in DOMAIN pc
  /\ pc[p].at = "post"
  /\ LET dim == pc[p].dim
     IN  chan' =
           [c \in DOMAIN chan |->
              IF /\ c[2] = dim
                 /\ Opposite(c[3]) \in NeighbDirs(obj.cs, p, dim)
                 /\ coords_cart_neighb(obj.cs, p, Opposite(c[3]), dim) = c[1]
              THEN Append(chan[c],
                          Pack(obj.cs, obj.nhcomm, psi[p], dim, Opposite(c[3])))
              ELSE chan[c]]
  /\ pc' = [pc EXCEPT ![p].at = "wait"]
  /\ UNCHANGED psi
  /\ HaloRest

\* field_halo_wait along one axis: both slabs are there; unpack them into
\* the ghost sites, and go on with the next axis
FieldHaloWait(p) ==
  /\ p \in DOMAIN pc
  /\ pc[p].at = "wait"
  /\ LET dim  == pc[p].dim
         dirs == NeighbDirs(obj.cs, p, dim)
         got(f, fb) ==
           IF fb \in dirs
           THEN Unpack(obj.cs, f, dim, fb, Head(chan[<<p, dim, fb>>]))
           ELSE f
     IN  /\ \A fb \in dirs : chan[<<p, dim, fb>>] # << >>
         /\ \E f1 \in { got(psi[p], "BACKWARD") } :
              psi' = [psi EXCEPT ![p] = got(f1, "FORWARD")]
         /\ chan' = [c \in DOMAIN chan |->
                       IF c[1] = p /\ c[2] = dim /\ c[3] \in dirs
                       THEN Tail(chan[c]) ELSE chan[c]]
         /\ pc' = [pc EXCEPT ![p] =
                     IF dim = Z THEN HaloPc("done", Z)
                     ELSE HaloPc("post", dim + 1)]
  /\ HaloRest

HaloNext ==
  \/ \E p \in cs_cart_coords(obj.cs) : FieldHaloPost(p)
  \/ \E p \in cs_cart_coords(obj.cs) : FieldHaloWait(p)

HaloSpec == HaloInit /\ [][HaloNext]_vars

(***************************************************************************)
(* Properties of the coordinate system and of the halo exchange.           *)
(***************************************************************************)
\* the local coordinates of all storage sites
StorageCoords(cs) ==
  LET R(d) == LocalRange(cs, 1..3, cs.nhalo, d) IN R(X) \X R(Y) \X R(Z)

\* the local coordinates of the owned sites
OwnedCoords(cs) ==
  LET R(d) == LocalRange(cs, {}, 0, d) IN R(X) \X R(Y) \X R(Z)

\* the ghost sites within the width nh of the owned sites
GhostCoords(cs, nh) ==
  LET R(d) == LocalRange(cs, 1..3, nh, d)
  IN  (R(X) \X R(Y) \X R(Z)) \ OwnedCoords(cs)

\* the global coordinates of the local coordinates c of process p
GlobalOf(cs, p, c) ==
  [d \in 1..3 |-> c[d] + coords_nlocal_offset(cs, p)[d]]

\* the global coordinate g along d is that of a site of the lattice, as it
\* is or wrapped along a periodic axis
HasOwner(cs, g) ==
  \A d \in 1..3 : g[d] \in 1 .. cs.ntotal[d] \/ cs.periodic[d]

WrapGlobal(cs, g) ==
  [d \in 1..3 |-> ((g[d] - 1 + cs.ntotal[d]) % cs.ntotal[d]) + 1]

\* the process that owns the site of global coordinates g, and the local
\* coordinates of the site there
OwnerOf(cs, g) == [d \in 1..3 |-> (g[d] - 1) \div cs_nlocal(cs)[d]]

LocalOf(cs, g) ==
  [d \in 1..3 |-> g[d] - coords_nlocal_offset(cs, OwnerOf(cs, g))[d]]

\* the number of axes along which the local coordinates c are outside the
\* owned sites: 1 on a face, 2 on an edge, 3 at a corner
GhostAxes(cs, c) ==
  Cardinality({ d \in 1..3 : c[d] \notin 1 .. cs_nlocal(cs)[d] })

\* the ghost site c of process p holds the owner's values
GhostCorrect(p, c) ==
  LET cs == obj.cs
      w  == WrapGlobal(cs, GlobalOf(cs, p, c))
      q  == OwnerOf(cs, w)
      l  == LocalOf(cs, w)
  IN  \A k \in 1 .. obj.nf :
        psi[p][coords_index(cs, c[X], c[Y], c[Z])][k]
          = psi[q][coords_index(cs, l[X], l[Y], l[Z])][k]

\* C14: once the halo exchange has returned on a process, each of its ghost
\* sites within nhcomm of the owned sites (on a face, on an edge or at a
\* corner) whose global coordinates, wrapped along the periodic axes, are
\* those of a site of the lattice holds for every component the value the
\* owner of that site holds there.
C14_GhostsHoldOwnersValues ==
  \A p \in DOMAIN pc :
    pc[p].at = "done" =>
      \A c \in GhostCoords(obj.cs, obj.nhcomm) :
        HasOwner(obj.cs, GlobalOf(obj.cs, p, c)) => GhostCorrect(p, c)

\* the exchange has returned on a process of a 2 x 2 x 1 grid, of a field of
\* two components and width 2, and a corner ghost site, owned by another
\* process, holds the reference value
C14_Witness ==
  /\ obj.cs.cartsz = <<2, 2, 1>> /\ obj.nf >= 2 /\ obj.nhcomm = 2
  /\ obj.cs.periodic = <<TRUE, TRUE, TRUE>>
  /\ pc[<<0, 0, 0>>].at = "done"
  /\ LET c == <<0 - 1, 0 - 1, 0 - 1>>
         w == WrapGlobal(obj.cs, GlobalOf(obj.cs, <<0, 0, 0>>, c))
     IN  /\ GhostAxes(obj.cs, c) = 3
         /\ OwnerOf(obj.cs, w) = <<1, 1, 0>>
         /\ GhostCorrect(<<0, 0, 0>>, c)
         /\ psi[<<0, 0, 0>>][coords_index(obj.cs, c[X], c[Y], c[Z])][2]
              = test_ref_double1(w, 2)

\* the global coordinates of the sites process p owns
OwnedGlobal(cs, p) == { GlobalOf(cs, p, c) : c \in OwnedCoords(cs) }

\* the global index set
GlobalCoords(cs) ==
  (1 .. cs.ntotal[X]) \X (1 .. cs.ntotal[Y]) \X (1 .. cs.ntotal[Z])

\* the process grid divides the global extents exactly
ValidDecomposition(cs) ==
  \A d \in 1..3 : cs.cartsz[d] >= 1 /\ cs.ntotal[d] % cs.cartsz[d] = 0

\* C15: for a valid decomposition, the owned sites of the processes,
\* shifted by the offsets of the processes, cover the global index set,
\* and no two processes own the same global index.
C15_OffsetsPartition ==
  ValidDecomposition(obj.cs) =>
    /\ UNION { OwnedGlobal(obj.cs, p) : p \in cs_cart_coords(obj.cs) }
         = { <<g[1], g[2], g[3]>> : g \in GlobalCoords(obj.cs) }
    /\ \A p, q \in cs_cart_coords(obj.cs) :
         p # q => OwnedGlobal(obj.cs, p) \cap OwnedGlobal(obj.cs, q) = {}

\* four processes, local extents that differ, and a process away from the
\* origin that owns the last site of the lattice
C15_Witness ==
  /\ obj.cs.cartsz = <<2, 2, 1>> /\ cs_nlocal(obj.cs) = <<2, 3, 2>>
  /\ coords_nlocal_offset(obj.cs, <<1, 1, 0>>)[Y] = 3
  /\ [d \in 1..3 |-> obj.cs.ntotal[d]] \in OwnedGlobal(obj.cs, <<1, 1, 0>>)
  /\ \E p \in DOMAIN pc : pc[p].at = "done"

\* C16: cs_index and cs_index_to_ijk are inverses of each other on the
\* storage sites, every address of 0 .. nsites-1 is that of exactly one
\* site, and a step along x, y or z changes the address by the stride xs,
\* ys or zs of cs_strides.
C16_IndexBijective ==
  LET cs == obj.cs
      S  == StorageCoords(cs)
      st == coords_strides(cs)
  IN  /\ Cardinality(S) = coords_nsites(cs)
      /\ \A c \in S :
           LET i == coords_index(cs, c[X], c[Y], c[Z])
           IN  /\ i \in 0 .. coords_nsites(cs) - 1
               /\ coords_index_to_ijk(cs, i) = <<c[X], c[Y], c[Z]>>
               /\ coords_index(cs, c[X] + 1, c[Y], c[Z]) = i + st.xs
               /\ coords_index(cs, c[X], c[Y] + 1, c[Z]) = i + st.ys
               /\ coords_index(cs, c[X], c[Y], c[Z] + 1) = i + st.zs
               /\ cs.nhalo = NHalo =>
                    /\ cs_index(cs_nlocal(cs), c[X], c[Y], c[Z]) = i
                    /\ cs_index_to_ijk(cs_nlocal(cs), i)
                         = <<c[X], c[Y], c[Z]>>
      /\ \A i \in 0 .. coords_nsites(cs) - 1 :
           LET c == coords_index_to_ijk(cs, i)
           IN  c \in S /\ coords_index(cs, c[X], c[Y], c[Z]) = i

\* a halo of width 2 around local extents that differ: the last storage
\* site has the last address, and the strides differ
C16_Witness ==
  /\ obj.cs.nhalo = 2 /\ cs_nlocal(obj.cs) = <<2, 3, 2>>
  /\ coords_index(obj.cs, 4, 5, 4) = coords_nsites(obj.cs) - 1
  /\ coords_index_to_ijk(obj.cs, 0) = <<0 - 1, 0 - 1, 0 - 1>>
  /\ coords_strides(obj.cs).ys # coords_strides(obj.cs).zs
  /\ \E p \in DOMAIN pc : pc[p].at = "wait"

\* C17: if B is the neighbour of A in a direction along an axis, A is the
\* neighbour of B in the other direction along that axis; on a periodic
\* axis the neighbour beyond the last process is the first one, and a
\* process alone on a periodic axis is its own neighbour both ways.
C17_NeighboursSymmetric ==
  LET cs == obj.cs
  IN  \A p \in cs_cart_coords(cs), d \in 1..3, fb \in Directions :
        LET q == coords_cart_neighb(cs, p, fb, d)
        IN  /\ q # MPI_PROC_NULL =>
                 /\ q \in cs_cart_coords(cs)
                 /\ coords_cart_neighb(cs, q, Opposite(fb), d) = p
            /\ (cs.periodic[d] /\ p[d] = cs.cartsz[d] - 1 /\ fb = "FORWARD")
                 => q = [p EXCEPT ![d] = 0]
            /\ (cs.periodic[d] /\ p[d] = 0 /\ fb = "BACKWARD")
                 => q = [p EXCEPT ![d] = cs.cartsz[d] - 1]
            /\ (cs.periodic[d] /\ cs.cartsz[d] = 1) => q = p
            /\ (cs.periodic[X] /\ d = X) =>
                 q[X] = cs_cart_neighb(cs.cartsz[X], p[X], fb)

\* three processes along the periodic axis X: the backward neighbour of the
\* first is the last, not the forward neighbour; alone along Y, a process
\* is its own neighbour
C17_Witness ==
  /\ obj.cs.cartsz = <<3, 1, 1>> /\ obj.cs.periodic = <<TRUE, TRUE, TRUE>>
  /\ coords_cart_neighb(obj.cs, <<0, 0, 0>>, "BACKWARD", X) = <<2, 0, 0>>
  /\ coords_cart_neighb(obj.cs, <<0, 0, 0>>, "FORWARD", X) = <<1, 0, 0>>
  /\ coords_cart_neighb(obj.cs, <<1, 0, 0>>, "FORWARD", Y) = <<1, 0, 0>>
  /\ \E p \in DOMAIN pc : pc[p].at = "wait"

(***************************************************************************)
(* The input/output options (io_options.c).  An io_options_t is a record   *)
(* [mode, iorformat, metadata_version, report, asynchronous]; the values   *)
(* of the enumerations are those of io_options.h.  The options start as    *)
(* io_options_default returns them; a caller then assigns to the fields    *)
(* and calls the validators, as the unit tests do.                         *)
(***************************************************************************)
io_mode_enum_t == { "IO_MODE_INVALID", "IO_MODE_SINGLE", "IO_MODE_MULTIPLE" }

io_record_format_enum_t ==
  { "IO_RECORD_INVALID", "IO_RECORD_ASCII", "IO_RECORD_BINARY" }

io_metadata_version_enum_t ==
  { "IO_METADATA_INVALID", "IO_METADATA_SINGLE_V1", "IO_METADATA_MULTI_V1" }

\* the value of a comparison in C
Truth(b) == IF b THEN 1 ELSE 0

io_mode_default == "IO_MODE_SINGLE"

io_record_format_default == "IO_RECORD_BINARY"

io_metadata_version_default == "IO_METADATA_SINGLE_V1"

\* a faulty variant of io_options_default: the metadata version of the
\* other mode
io_options_default_multi ==
  [mode |-> io_mode_default, iorformat |-> io_record_format_default,
   metadata_version |-> "IO_METADATA_MULTI_V1", report |-> 0,
   asynchronous |-> 0]

\* IO_OPTIONS_DEFAULT()
io_options_default ==
  [mode |-> io_mode_default, iorformat |-> io_record_format_default,
   metadata_version |-> io_metadata_version_default, report |-> 0,
   asynchronous |-> 0]

io_options_mode_valid(mode) ==
  Truth(mode = "IO_MODE_SINGLE") + Truth(mode = "IO_MODE_MULTIPLE")

io_options_record_format_valid(ioformat) ==
  Truth(ioformat = "IO_RECORD_ASCII") + Truth(ioformat = "IO_RECORD_BINARY")

\* a faulty variant of io_options_metadata_version_valid: no break after
\* the first case
io_options_metadata_version_valid_nobreak(options) ==
  CASE options.metadata_version \in
         { "IO_METADATA_SINGLE_V1", "IO_METADATA_MULTI_V1" } ->
         Truth(options.mode = "IO_MODE_MULTIPLE")
    [] OTHER -> 0

io_options_metadata_version_valid(options) ==
  CASE options.metadata_version = "IO_METADATA_SINGLE_V1" ->
         Truth(options.mode = "IO_MODE_SINGLE")
    [] options.metadata_version = "IO_METADATA_MULTI_V1" ->
         Truth(options.mode = "IO_MODE_MULTIPLE")
    [] OTHER -> 0

io_options_valid(options) ==
    io_options_mode_valid(options.mode)
  + io_options_record_format_valid(options.iorformat)
  + io_options_metadata_version_valid(options)

\* obj is the io_options_t; arg tells whether it is still as
\* io_options_default returned it; ret is the validator last called on it
\* and the value it returned
IoInit ==
  /\ obj = io_options_default
  /\ arg = "io_options_default"
  /\ ret = << >>
  /\ psi = << >> /\ rho = << >> /\ pc = << >> /\ fn = << >>
  /\ caller = << >> /\ n = << >> /\ pass = << >> /\ omega = << >>
  /\ rnorm_local = << >> /\ rnorm = << >> /\ chan = << >> /\ posted = << >>
  /\ info = << >> /\ evlog = << >> /\ brk = << >> /\ fnret = << >>
  /\ calls = << >> /\ nwrite = << >> /\ todo = << >>

IoRest ==
  UNCHANGED << psi, rho, pc, fn, caller, n, pass, omega, rnorm_local, rnorm,
               chan, posted, info, evlog, brk, fnret, calls, nwrite, todo >>

\* opts.mode = mode
SetMode ==
  /\ \E mode \in io_mode_enum_t : obj' = [obj EXCEPT !.mode = mode]
  /\ arg' = "assigned" /\ ret' = << >> /\ IoRest

\* opts.iorformat = ioformat
SetRecordFormat ==
  /\ \E ioformat \in io_record_format_enum_t :
       obj' = [obj EXCEPT !.iorformat = ioformat]
  /\ arg' = "assigned" /\ ret' = << >> /\ IoRest

\* opts.metadata_version = version
SetMetadataVersion ==
  /\ \E version \in io_metadata_version_enum_t :
       obj' = [obj EXCEPT !.metadata_version = version]
  /\ arg' = "assigned" /\ ret' = << >> /\ IoRest

\* opts.report = b, opts.asynchronous = b
SetFlag ==
  /\ \E b \in {0, 1} :
       \/ obj' = [obj EXCEPT !.report = b]
       \/ obj' = [obj EXCEPT !.asynchronous = b]
  /\ arg' = "assigned" /\ ret' = << >> /\ IoRest

CallModeValid ==
  /\ ret' = << "io_options_mode_valid", io_options_mode_valid(obj.mode) >>
  /\ UNCHANGED << obj, arg >> /\ IoRest

CallRecordFormatValid ==
  /\ ret' = << "io_options_record_format_valid",
               io_options_record_format_valid(obj.iorformat) >>
  /\ UNCHANGED << obj, arg >> /\ IoRest

CallMetadataVersionValid ==
  /\ ret' = << "io_options_metadata_version_valid",
               io_options_metadata_version_valid(obj) >>
  /\ UNCHANGED << obj, arg >> /\ IoRest

CallValid ==
  /\ ret' = << "io_options_valid", io_options_valid(obj) >>
  /\ UNCHANGED << obj, arg >> /\ IoRest

IoNext ==
  \/ SetMode
  \/ SetRecordFormat
  \/ SetMetadataVersion
  \/ SetFlag
  \/ CallModeValid
  \/ CallRecordFormatValid
  \/ CallMetadataVersionValid
  \/ CallValid

IoSpec == IoInit /\ [][IoNext]_vars

\* the validator f has just returned: its value
Returned(f) == ret # << >> /\ ret[1] = f

\* the metadata version of the options is consistent with their mode
Consistent(options) ==
  \/ /\ options.metadata_version = "IO_METADATA_SINGLE_V1"
     /\ options.mode = "IO_MODE_SINGLE"
  \/ /\ options.metadata_version = "IO_METADATA_MULTI_V1"
     /\ options.mode = "IO_MODE_MULTIPLE"

\* C18: io_options_valid returns zero when the mode is invalid, or the
\* record format is invalid, or the metadata version is not consistent with
\* the mode; it returns non-zero only when the three are valid.
C18_ZeroWhenInvalid ==
  Returned("io_options_valid") =>
    (ret[2] # 0 <=>
       /\ obj.mode \in { "IO_MODE_SINGLE", "IO_MODE_MULTIPLE" }
       /\ obj.iorformat \in { "IO_RECORD_ASCII", "IO_RECORD_BINARY" }
       /\ Consistent(obj))

\* what holds of io_options_valid: zero exactly when the mode is invalid,
\* and the record format is invalid, and the metadata version is not
\* consistent with the mode
C18_ZeroWhenAllInvalid ==
  Returned("io_options_valid") =>
    (ret[2] = 0 <=>
       /\ obj.mode \notin { "IO_MODE_SINGLE", "IO_MODE_MULTIPLE" }
       /\ obj.iorformat \notin { "IO_RECORD_ASCII", "IO_RECORD_BINARY" }
       /\ ~ Consistent(obj))

\* C19: io_options_metadata_version_valid returns non-zero if and only if
\* the metadata version is IO_METADATA_SINGLE_V1 and the mode
\* IO_MODE_SINGLE, or the metadata version is IO_METADATA_MULTI_V1 and the
\* mode IO_MODE_MULTIPLE.
C19_NonZeroIffConsistent ==
  /\ Returned("io_options_metadata_version_valid") =>
       (ret[2] # 0 <=> Consistent(obj))
  /\ \A mode \in io_mode_enum_t, version \in io_metadata_version_enum_t :
       io_options_metadata_version_valid(
           [obj EXCEPT !.mode = mode, !.metadata_version = version]) # 0
         <=> Consistent([mode |-> mode, metadata_version |-> version])

\* the validator has returned non-zero for the version and the mode
\* IO_METADATA_SINGLE_V1 and IO_MODE_SINGLE, assigned by the caller
C19_Witness ==
  /\ Returned("io_options_metadata_version_valid")
  /\ arg = "assigned"
  /\ obj.mode = "IO_MODE_SINGLE"
  /\ obj.metadata_version = "IO_METADATA_SINGLE_V1"
  /\ ret[2] = 1

\* C20: the options as io_options_default returns them are valid for each
\* of the four validators, and their report and asynchronous are 0.
C20_DefaultValid ==
  arg = "io_options_default" =>
    /\ obj = io_options_default
    /\ io_options_mode_valid(obj.mode) # 0
    /\ io_options_record_format_valid(obj.iorformat) # 0
    /\ io_options_metadata_version_valid(obj) # 0
    /\ io_options_valid(obj) # 0
    /\ obj.report = 0
    /\ obj.asynchronous = 0
    /\ ret # << >> => ret[2] # 0

\* io_options_valid has returned 3 for the options as
\* io_options_default returned them
C20_Witness ==
  /\ arg = "io_options_default"
  /\ Returned("io_options_valid")
  /\ ret[2] = 3
  /\ obj.mode = "IO_MODE_SINGLE" /\ obj.iorformat = "IO_RECORD_BINARY"
  /\ obj.metadata_version = "IO_METADATA_SINGLE_V1"

(***************************************************************************)
(* Properties of the solvers: entry, relaxation parameter, residual        *)
(* checks, reports and frame.                                              *)
(***************************************************************************)
\* a local extent is odd
OddExtent == \E d \in 1..3 : obj.nlocal[d] % 2 # 0

\* process p has done nothing to the potential, and has started no halo
\* exchange and no reduction
Untouched(p) ==
  /\ \A i \in Sites(obj.nlocal) : psi[p][i] = 0
  /\ evlog[p] = << >>
  /\ posted[p] = << >>
  /\ \A d \in Directions : chan[<<p, d>>] = << >>

ForceExtents == { <<3, 2, 2>>, <<2, 3, 1>>, <<1, 2, 3>>, <<4, 1, 1>> }

MaxSeed == 3

\* the owned sites, in the order of the loops over ic, jc, kc
ForceSites(nlocal) ==
  (1 .. nlocal[X]) \X (1 .. nlocal[Y]) \X (1 .. nlocal[Z])

\* the periodic image among the owned sites of the site c
ForceImage(nlocal, c) ==
  [d \in 1..3 |-> ((c[d] - 1 + nlocal[d]) % nlocal[d]) + 1]

\* the stress fields: all of the stress in one component at one site, or a
\* stress everywhere that depends on the site, the component and the seed
DeltaStress(nlocal, at, a, b) ==
  [c \in ForceSites(nlocal) |->
     [i \in 1..3 |-> [j \in 1..3 |->
        IF c = at /\ i = a /\ j = b THEN 2 ELSE 0]]]

SeedStress(nlocal, seed) ==
  [c \in ForceSites(nlocal) |->
     [i \in 1..3 |-> [j \in 1..3 |->
        2 * (((7 * c[X] + 5 * c[Y] * c[Y] + 3 * c[Z] + 11 * i + 13 * j)
                * seed * seed + seed * c[X] * c[Y] * c[Z]) % 7) - 6]]]

\* free_energy_get_chemical_stress(index, pth) at an owned or a halo site
free_energy_get_chemical_stress(nlocal, pth, c) ==
  pth[ForceImage(nlocal, << c[1], c[2], c[3] >>)]

le_index_real_to_buffer(ic, di) == ic + di

\* 0.5*v of an even v
HalfOf(v) == v \div 2

\* a faulty variant of ForceAt: the difference backward along X is assigned,
\* not added
ForceAt_assign(nlocal, pth, c) ==
  LET P(e)  == free_energy_get_chemical_stress(nlocal, pth, e)
      pth0  == P(c)
      icm1  == le_index_real_to_buffer(c[1], 0 - 1)
  IN  [ia \in 1..3 |->
           HalfOf(P(<<icm1, c[2], c[3]>>)[X][ia] + pth0[X][ia])
         - HalfOf(P(<<c[1], c[2] + 1, c[3]>>)[Y][ia] + pth0[Y][ia])
         + HalfOf(P(<<c[1], c[2] - 1, c[3]>>)[Y][ia] + pth0[Y][ia])
         - HalfOf(P(<<c[1], c[2], c[3] + 1>>)[Z][ia] + pth0[Z][ia])
         + HalfOf(P(<<c[1], c[2], c[3] - 1>>)[Z][ia] + pth0[Z][ia])]

\* the body of the loops of phi_force_calculation_fluid: the force at c
ForceAt(nlocal, pth, c) ==
  LET P(e)  == free_energy_get_chemical_stress(nlocal, pth, e)
      pth0  == P(c)
      icm1  == le_index_real_to_buffer(c[1], 0 - 1)
      icp1  == le_index_real_to_buffer(c[1], 1)
  IN  [ia \in 1..3 |->
         0 - HalfOf(P(<<icp1, c[2], c[3]>>)[X][ia] + pth0[X][ia])
           + HalfOf(P(<<icm1, c[2], c[3]>>)[X][ia] + pth0[X][ia])
           - HalfOf(P(<<c[1], c[2] + 1, c[3]>>)[Y][ia] + pth0[Y][ia])
           + HalfOf(P(<<c[1], c[2] - 1, c[3]>>)[Y][ia] + pth0[Y][ia])
           - HalfOf(P(<<c[1], c[2], c[3] + 1>>)[Z][ia] + pth0[Z][ia])
           + HalfOf(P(<<c[1], c[2], c[3] - 1>>)[Z][ia] + pth0[Z][ia])]

\* the site after c in the order of the loops, or "done" after the last
NextSite(nlocal, c) ==
  IF c[3] < nlocal[Z] THEN << c[1], c[2], c[3] + 1 >>
  ELSE IF c[2] < nlocal[Y] THEN << c[1], c[2] + 1, 1 >>
  ELSE IF c[1] < nlocal[X] THEN << c[1] + 1, 1, 1 >>
  ELSE "done"

ForceConfigs ==
  { [nlocal |-> e, pth |-> DeltaStress(e, at, ab[1], ab[2])] :
      e \in { <<3, 2, 2>> }, at \in ForceSites(<<3, 2, 2>>),
      ab \in (1..3) \X (1..3) }
  \cup
  { [nlocal |-> e, pth |-> SeedStress(e, seed)] :
      e \in ForceExtents, seed \in 1..MaxSeed }

\* obj holds the extents and the stress, psi the force on the lattice at
\* each site, pc the site the loops are at
ForceInit ==
  /\ obj \in ForceConfigs
  /\ arg = "phi_force_calculation_fluid"
  /\ psi = [c \in ForceSites(obj.nlocal) |-> << 0, 0, 0 >>]
  /\ pc = << 1, 1, 1 >>
  /\ rho = << >> /\ fn = << >> /\ caller = << >> /\ n = << >>
  /\ pass = << >> /\ omega = << >> /\ rnorm_local = << >> /\ rnorm = << >>
  /\ chan = << >> /\ posted = << >> /\ info = << >> /\ evlog = << >>
  /\ brk = << >> /\ fnret = << >> /\ ret = << >> /\ calls = << >>
  /\ nwrite = << >> /\ todo = << >>

\* one turn of the innermost loop: hydrodynamics_add_force_local(index,
\* force) with the force at the site
ForceStep ==
  /\ pc \in ForceSites(obj.nlocal)
  /\ \E force \in { ForceAt(obj.nlocal, obj.pth, pc) } :
       psi' = [psi EXCEPT ![pc] =
                 [ia \in 1..3 |-> psi[pc][ia] + force[ia]]]
  /\ pc' = NextSite(obj.nlocal, pc)
  /\ UNCHANGED << obj, arg, rho, fn, caller, n, pass, omega, rnorm_local,
                  rnorm, chan, posted, info, evlog, brk, fnret, ret, calls,
                  nwrite, todo >>

ForceNext == ForceStep

ForceSpec == ForceInit /\ [][ForceNext]_vars

\* the sum of component ia of the force over the sites of S
RECURSIVE ForceSum(_, _, _)
ForceSum(f, S, ia) ==
  IF S = {} THEN 0
  ELSE LET c == CHOOSE c \in S : TRUE
       IN  f[c][ia] + ForceSum(f, S \ {c}, ia)

\* C22: once phi_force_calculation_fluid has gone over all the sites of a
\* periodic lattice, the forces it has added to the lattice sum to zero in
\* each component.
C22_MomentumConserved ==
  pc = "done" =>
    \A ia \in 1..3 : ForceSum(psi, ForceSites(obj.nlocal), ia) = 0

\* the loops are over, and forces that are not zero have been added: one
\* along X of one sign and one of the other
C22_Witness ==
  /\ pc = "done"
  /\ obj.nlocal = <<3, 2, 2>>
  /\ \E c, e \in ForceSites(obj.nlocal) : psi[c][X] > 0 /\ psi[e][X] < 0
  /\ \E c \in ForceSites(obj.nlocal) : psi[c][Z] # 0

(***************************************************************************)
(* The force -phi grad mu (phi_grad_mu.c): the kernel for a fluid and the  *)
(* kernel that allows a solid wall, run on the same order parameter phi    *)
(* (nf components, even values so that phi*0.5 is exact), the same         *)
(* chemical potential mu and the same map, each adding to a force array of *)
(* its own.  The kernels visit the sites in any order.                     *)
(***************************************************************************)
\* the largest number of order parameters followed
MaxGradNf == 2

\* the local extents of the kernels: two sites next to each other along X
GradLocal == <<2, 1, 1>>

GradSites == (1 .. GradLocal[X]) \X (1 .. GradLocal[Y]) \X (1 .. GradLocal[Z])

\* the site one step from c along axis d: kernel_coords_index(ic +/- 1, ..)
GradStep(c, d, di) == [c EXCEPT ![d] = c[d] + di]

\* the sites the kernels read: the owned sites and their axis neighbours
GradRead ==
  GradSites \cup
  { GradStep(c, d, di) : c \in GradSites, d \in 1..3, di \in {0 - 1, 1} }

\* the chemical potential (fe->func->mu) and the order parameter at the
\* site c, component k, for a seed
GradMu(seed, c, k) ==
  ((3 * c[1] * c[1] + 5 * c[2] + 7 * c[3] * c[2] + 11 * k) * seed
     + c[1] * c[3] * k) % 9

GradPhi(seed, c, k) == 2 * ((c[1] + 2 * k + seed) % 3) - 2

\* the maps: at most two of the sites read are not fluid, each of them
\* MAP_BOUNDARY or MAP_COLLOID
GradMaps ==
  { [c \in GradRead |->
       IF c = b[1] THEN b[2] ELSE IF c = e[1] THEN e[2] ELSE "MAP_FLUID"] :
      b \in GradRead \X {"MAP_FLUID", "MAP_BOUNDARY", "MAP_COLLOID"},
      e \in GradRead \X {"MAP_FLUID", "MAP_BOUNDARY"} }

GradConfigs ==
  { [nf |-> nf, seed |-> seed, map |-> m] :
      nf \in 1..MaxGradNf, seed \in {1, 2}, m \in GradMaps }

\* -phi0[n]*0.5*(mup1[n] - mum1[n]) summed over the order parameters
RECURSIVE GradSum(_, _, _, _)
GradSum(nf, phi0, mup1, mum1) ==
  IF nf = 0 THEN 0
  ELSE GradSum(nf - 1, phi0, mup1, mum1)
         + (0 - HalfOf(phi0[nf])) * (mup1[nf] - mum1[nf])

\* the loop body of phi_grad_mu_fluid_kernel: the force at the site c
FluidForce(o, c) ==
  LET phi0 == [k \in 1..o.nf |-> GradPhi(o.seed, c, k)]
      mu(e) == [k \in 1..(o.nf + 1) |-> GradMu(o.seed, e, k)]
  IN  [d \in 1..3 |->
         GradSum(o.nf, phi0, mu(GradStep(c, d, 1)), mu(GradStep(c, d, 0 - 1)))]

\* a faulty variant of WallMu: any neighbour that is not fluid is taken for
\* a wall
WallMu_notfluid(o, status, mu0, mu1) ==
  [k \in 1..(o.nf + 1) |->
     IF status # "MAP_FLUID" /\ k <= o.nf THEN mu0[k] ELSE mu1[k]]

\* if (map == MAP_BOUNDARY) the first nf chemical potentials of the
\* neighbour are replaced by those of the site
WallMu(o, status, mu0, mu1) ==
  [k \in 1..(o.nf + 1) |->
     IF status = "MAP_BOUNDARY" /\ k <= o.nf THEN mu0[k] ELSE mu1[k]]

\* force -= phi[n1]*0.5*(mup1[n1] - mum1[n1]) over the order parameters
RECURSIVE GradSub(_, _, _, _)
GradSub(nf, phi0, mup1, mum1) ==
  IF nf = 0 THEN 0
  ELSE GradSub(nf - 1, phi0, mup1, mum1)
         - HalfOf(phi0[nf]) * (mup1[nf] - mum1[nf])

\* the loop body of phi_grad_mu_solid_kernel: the force at the site c
SolidForce(o, c) ==
  LET phi0 == [k \in 1..o.nf |-> GradPhi(o.seed, c, k)]
      mu(e) == [k \in 1..(o.nf + 1) |-> GradMu(o.seed, e, k)]
      mup1(d) == WallMu(o, o.map[GradStep(c, d, 1)], mu(c),
                        mu(GradStep(c, d, 1)))
      mum1(d) == WallMu(o, o.map[GradStep(c, d, 0 - 1)], mu(c),
                        mu(GradStep(c, d, 0 - 1)))
  IN  [d \in 1..3 |-> GradSub(o.nf, phi0, mup1(d), mum1(d))]

\* obj holds the inputs; psi is the force array of the fluid kernel, rho
\* that of the solid kernel; pc holds the sites each kernel has visited
GradInit ==
  /\ obj \in GradConfigs
  /\ arg = "phi_grad_mu"
  /\ psi = [c \in GradSites |-> << 0, 0, 0 >>]
  /\ rho = [c \in GradSites |-> << 0, 0, 0 >>]
  /\ pc = [fluid |-> {}, solid |-> {}]
  /\ fn = << >> /\ caller = << >> /\ n = << >>
  /\ pass = << >> /\ omega = << >> /\ rnorm_local = << >> /\ rnorm = << >>
  /\ chan = << >> /\ posted = << >> /\ info = << >> /\ evlog = << >>
  /\ brk = << >> /\ fnret = << >> /\ ret = << >> /\ calls = << >>
  /\ nwrite = << >> /\ todo = << >>

GradRest ==
  UNCHANGED << obj, arg, fn, caller, n, pass, omega, rnorm_local, rnorm,
               chan, posted, info, evlog, brk, fnret, ret, calls, nwrite,
               todo >>

\* hydro_f_local_add(hydro, index, force)
hydro_f_local_add(f, c, force) ==
  [f EXCEPT ![c] = [d \in 1..3 |-> f[c][d] + force[d]]]

\* one iteration of the fluid kernel
FluidKernelSite ==
  /\ \E c \in GradSites \ pc.fluid :
       /\ psi' = hydro_f_local_add(psi, c, FluidForce(obj, c))
       /\ pc' = [pc EXCEPT !.fluid = @ \cup {c}]
  /\ UNCHANGED rho
  /\ GradRest

\* one iteration of the solid kernel
SolidKernelSite ==
  /\ \E c \in GradSites \ pc.solid :
       /\ rho' = hydro_f_local_add(rho, c, SolidForce(obj, c))
       /\ pc' = [pc EXCEPT !.solid = @ \cup {c}]
  /\ UNCHANGED psi
  /\ GradRest

GradNext ==
  \/ FluidKernelSite
  \/ SolidKernelSite

GradSpec == GradInit /\ [][GradNext]_vars

\* an axis neighbour of the site c has the status MAP_BOUNDARY
NearWall(c) ==
  \E d \in 1..3, di \in {0 - 1, 1} : obj.map[GradStep(c, d, di)] = "MAP_BOUNDARY"

\* the chemical potential the solid kernel is to use for the neighbour e of
\* the site c: that of c when e is a wall, that of e otherwise
MuSeen(c, e, k) ==
  IF obj.map[e] = "MAP_BOUNDARY" THEN GradMu(obj.seed, c, k)
  ELSE GradMu(obj.seed, e, k)

\* f_d = - sum over the order parameters of phi * 0.5 * (mu seen forward -
\* mu seen backward)
RECURSIVE WallForce(_, _, _)
WallForce(c, d, k) ==
  IF k = 0 THEN 0
  ELSE WallForce(c, d, k - 1)
         - HalfOf(GradPhi(obj.seed, c, k))
             * (MuSeen(c, GradStep(c, d, 1), k)
                  - MuSeen(c, GradStep(c, d, 0 - 1), k))

\* C23: at a site both kernels have visited, the solid kernel has added the
\* force of the fluid kernel when no axis neighbour is MAP_BOUNDARY, and in
\* any case the force with the chemical potential of each MAP_BOUNDARY
\* neighbour replaced by that of the site.
C23_SolidCollapsesToFluid ==
  \A c \in pc.fluid \cap pc.solid :
    /\ ~ NearWall(c) => rho[c] = psi[c]
    /\ \A d \in 1..3 : rho[c][d] = WallForce(c, d, obj.nf)

\* both kernels have visited a site with a MAP_COLLOID neighbour and no
\* wall, where the force is not zero, and a site next to a wall where the
\* forces differ
C23_Witness ==
  /\ pc.fluid = GradSites /\ pc.solid = GradSites
  /\ obj.nf = 2
  /\ \E c \in GradSites :
       /\ ~ NearWall(c)
       /\ \E d \in 1..3 : obj.map[GradStep(c, d, 1)] = "MAP_COLLOID"
       /\ rho[c] = psi[c] /\ rho[c] # << 0, 0, 0 >>
  /\ \E c \in GradSites : NearWall(c) /\ rho[c] # psi[c]

\* the relaxation parameter of the k-th half-sweep (k from 1) when omega is
\* recomputed after every half-sweep: 1, the seed, then the recurrence
RECURSIVE OmegaSeq(_, _)
OmegaSeq(radius, k) ==
  IF k <= 1 THEN Scale
  ELSE IF k = 2 THEN Recip(Scale - TDiv(FMul(radius, radius), 2))
  ELSE Recip(Scale
             - TDiv(FMul(FMul(radius, radius), OmegaSeq(radius, k - 1)), 4))

\* the number (from 1) of the half-sweep process p is at
HalfSweepNo(p) == 2 * n[p] + pass[p] + 1

\* C24: in psi_sor_poisson the k-th half-sweep uses the k-th element of the
\* sequence 1, 1/(1 - radius^2/2), then omega -> 1/(1 - radius^2*omega/4),
\* and omega is recomputed after each half-sweep, before its halo exchange.
C24_OmegaSequence ==
  \A p \in Procs :
    fn[p] = "poisson" =>
      /\ pc[p] = "sweep" => omega[p] = OmegaSeq(RadiusOf, HalfSweepNo(p))
      /\ pc[p] \in {"halo", "halo_wait"} =>
           omega[p] = OmegaSeq(RadiusOf, HalfSweepNo(p) + 1)

\* psi_sor_poisson is about to take its sixth half-sweep, with the sixth
\* element, which is neither the fifth nor what the recurrence alone gives
C24_Witness ==
  \E p \in Procs :
    /\ fn[p] = "poisson" /\ pc[p] = "sweep" /\ n[p] = 2 /\ pass[p] = 1
    /\ omega[p] = OmegaSeq(RadiusOf, 6)
    /\ omega[p] # OmegaSeq(RadiusOf, 5)
    /\ OmegaSeq(RadiusOf, 2) # OmegaNext(RadiusOf, Scale)
    /\ cs_ltot(obj.nlocal, obj.cartsz)[X] > 2

RECURSIVE OmegaSweepSeq(_, _)
OmegaSweepSeq(radius, m) ==
  IF m <= 0 THEN Scale
  ELSE Recip(Scale
             - TDiv(FMul(FMul(radius, radius), OmegaSweepSeq(radius, m - 1)),
                    4))

CheckInterval(f) == IF f = "poisson" THEN 5 ELSE 1

\* the number of the full sweeps 0 .. m after which a check is due
ChecksDue(f, m) == IF m < 0 THEN 0 ELSE (m \div CheckInterval(f)) + 1

\* C26: the residual is reduced and tested after the full sweep n exactly
\* when n mod the interval (5 or 1) is 0: a process is in the reduction or
\* in the tests only after both half-sweeps of such an n, it has entered as
\* many reductions as there were such n, none before its first full sweep,
\* and it has left the loop as converged only at such an n, after at least
\* one full sweep.
C26_ChecksAtInterval ==
  \A p \in Procs :
    fn[p] # "none" =>
      /\ pc[p] \in {"reduce_wait", "test"} =>
           /\ n[p] % CheckInterval(fn[p]) = 0
           /\ CountOf(p, "sweep0") = n[p] + 1
           /\ CountOf(p, "sweep1") = n[p] + 1
      /\ pc[p] \in {"enter", "loop", "sweep", "omega", "halo", "halo_wait",
                    "omega_v", "check"} =>
           Len(posted[p]) = ChecksDue(fn[p], n[p] - 1)
      /\ pc[p] \in {"reduce_wait", "test", "report", "incr"} =>
           Len(posted[p]) = ChecksDue(fn[p], n[p])
      /\ CountOf(p, "reduce") <= Len(posted[p])
      /\ (LeftLoop(p) /\ obj.maxits >= 1) => CountOf(p, "sweep1") >= 1
      /\ brk[p] =>
           /\ n[p] % CheckInterval(fn[p]) = 0
           /\ CountOf(p, "sweep1") = n[p] + 1
           /\ CountOf(p, "sweep1") >= 1
           /\ CountOf(p, "reduce") = ChecksDue(fn[p], n[p])

\* psi_sor_poisson has converged after the full sweep 5, at its second
\* test, having gone through the sweeps 1 to 4 without a reduction
C26_Witness ==
  \E p \in Procs :
    /\ fn[p] = "poisson" /\ brk[p] /\ n[p] = 5
    /\ CountOf(p, "reduce") = 2 /\ CountOf(p, "sweep1") = 6


\* the sum over all processes of component i of the norms they hold: once
\* every process has left its last full sweep, the globally reduced norms of
\* that sweep
LastSweepNorm(i) ==
  rnorm_local[0][i] + (IF 1 \in Procs THEN rnorm_local[1][i] ELSE 0)

\* the "exceeded" reports of process p
ExceededReports(p) ==
  { i \in 1..Len(info[p]) : info[p][i][1] = "exceeded" }

\* C27: on a max-iterations exit the norms reported are the globally reduced
\* initial norm and the globally reduced norm accumulated in the last full
\* sweep (sweep max_iterations - 1), for every max_iterations >= 1
C27_ReportsLastSweep ==
  (\A q \in Procs : Exceeded(q)) =>
    \A p \in Procs : \A i \in ExceededReports(p) :
      /\ info[p][i][2] = obj.maxits
      /\ info[p][i][3] = << LastSweepNorm(1), LastSweepNorm(2) >>

\* the same restricted to the cases where sweep max_iterations - 1 is one
\* with a reduction: it holds
C27_ReportsLastSweepWhenChecked ==
  ((\A q \in Procs : Exceeded(q) /\ fn[q] # "none")
      /\ (obj.maxits - 1) % CheckInterval(fn[0]) = 0) =>
    \A p \in Procs : \A i \in ExceededReports(p) :
      /\ info[p][i][2] = obj.maxits
      /\ info[p][i][3] = << LastSweepNorm(1), LastSweepNorm(2) >>



\* the colour of a site of process p from its global indices: the local
\* ones plus the offset of the process
GlobalColour(o, p, index) ==
  LET c   == cs_index_to_ijk(o.nlocal, index)
      off == cs_nlocal_offset(o, p)
  IN  (c[1] + off[1] + c[2] + off[2] + c[3] + off[3]) % 2

\* the owned site a ghost site of process p is the image of: the process
\* and its local index.  Along X the plane comes from the neighbour in the
\* Cartesian communicator, along Y and Z from the process itself (periodic)
GhostImage(o, p, index) ==
  LET c  == cs_index_to_ijk(o.nlocal, index)
      np == o.cartsz[X]
      q  == IF c[1] = 0 THEN cs_cart_neighb(np, p, "BACKWARD")
            ELSE IF c[1] = o.nlocal[X] + 1
            THEN cs_cart_neighb(np, p, "FORWARD")
            ELSE p
      w  == [d \in 1..3 |->
               IF c[d] = 0 THEN o.nlocal[d]
               ELSE IF c[d] = o.nlocal[d] + 1 THEN 1 ELSE c[d]]
  IN  [q |-> q, index |-> cs_index(o.nlocal, w[1], w[2], w[3])]

\* C28: a process that is in a half-sweep (so the extents have passed the
\* assertions on entry) updates sites whose colour from local indices is
\* the colour from global indices, and every ghost site its stencils read is
\* the image of an owned site of the opposite colour, one the owner updates
\* in the other half-sweep and not in this one
C28_ColourAgrees ==
  \A p \in Procs :
    pc[p] = "sweep" =>
      LET here  == PassSites(obj.nlocal, pass[p])
          other == PassSites(obj.nlocal, 1 - pass[p])
      IN  \A i \in here :
            /\ Colour(obj.nlocal, i) = GlobalColour(obj, p, i)
            /\ Colour(obj.nlocal, i) = (1 + pass[p]) % 2
            /\ \A j \in StencilNeighbours(obj.nlocal, i) :
                 ~ IsInterior(obj.nlocal, j) =>
                   LET im == GhostImage(obj, p, j)
                   IN  /\ IsInterior(obj.nlocal, im.index)
                       /\ GlobalColour(obj, im.q, im.index)
                            # GlobalColour(obj, p, i)
                       /\ Colour(obj.nlocal, im.index)
                            # Colour(obj.nlocal, i)
                       /\ im.index \in other
                       /\ im.index \notin here

\* C28 witness: on two processes, process 1 is in the second half-sweep of
\* a later full sweep and one of its stencils reads a ghost site owned by
\* process 0
C28_Witness ==
  /\ Procs = {0, 1}
  /\ pc[1] = "sweep" /\ pass[1] = 1 /\ n[1] >= 1
  /\ \E i \in PassSites(obj.nlocal, 1) :
       \E j \in StencilNeighbours(obj.nlocal, i) :
         /\ ~ IsInterior(obj.nlocal, j)
         /\ GhostImage(obj, 1, j).q = 0



(***************************************************************************)
(* The solve on a decomposition against the solve of the same problem on a *)
(* single process.                                                         *)
(***************************************************************************)
\* largest maximum number of iterations of the solves compared
MaxDecompIts == 3

DecompConfigs ==
  { << MkObj(l, c, t, m), a >> :
      l \in Lattices, c \in CartSizes, t \in { <<0, 0>>, <<400, 0>> },
      m \in 1..MaxDecompIts, a \in ViaSolve }

DecompInit ==
  /\ \E c \in DecompConfigs : obj = c[1] /\ arg = c[2]
  /\ Start

DecompSpec == DecompInit /\ [][Next]_vars

\* the same problem on a single process: the local extents are the global
\* ones
SingleObj(o) ==
  [o EXCEPT !.nlocal = cs_ltot(o.nlocal, o.cartsz), !.cartsz = <<1, 1, 1>>]

\* one pass of solver f on the single process: the half-sweep, the new
\* omega of psi_sor_poisson, the halo exchange.  st = [psi, omega]
SinglePass(f, o, fe, rh, st, nn, ps) ==
  LET swept == HalfSweep(f, o, fe, rh, st.omega,
                         [psi |-> st.psi, rl1 |-> 0,
                          nwrite |-> [i \in Sites(o.nlocal) |-> 0]], ps).psi
  IN  [psi   |-> HaloUnpack(o.nlocal, swept,
                            PackX(o.nlocal, swept, o.nlocal[X]),
                            PackX(o.nlocal, swept, 1)),
       omega |-> IF f = "poisson"
                 THEN OmegaPoisson(Radius(cs_ltot(o.nlocal, o.cartsz)),
                                   st.omega, nn, ps)
                 ELSE st.omega]

\* full sweep nn on the single process
SingleSweep(f, o, fe, rh, st, nn) ==
  LET two == Strict(LAMBDA v : SinglePass(f, o, fe, rh, v, nn, 1),
                    Strict(LAMBDA v : SinglePass(f, o, fe, rh, v, nn, 0), st))
  IN  IF f = "poisson" THEN two
      ELSE [two EXCEPT !.omega =
              OmegaNext(Radius(cs_ltot(o.nlocal, o.cartsz)), @)]

\* the state of the single process after k full sweeps from the potential 0
RECURSIVE SingleAfter(_, _, _, _, _)
SingleAfter(f, o, fe, rh, k) ==
  IF k = 0 THEN [psi |-> [i \in Sites(o.nlocal) |-> 0], omega |-> Scale]
  ELSE Strict(LAMBDA v : SingleSweep(f, o, fe, rh, v, k - 1),
              SingleAfter(f, o, fe, rh, k - 1))

\* process p holds at each of its interior sites what f holds at the site
\* of the same global indices on the single process
MatchesSingle(p, f) ==
  LET g   == SingleObj(obj)
      off == cs_nlocal_offset(obj, p)
  IN  \A c \in (1..obj.nlocal[X]) \X (1..obj.nlocal[Y]) \X (1..obj.nlocal[Z]) :
        psi[p][cs_index(obj.nlocal, c[1], c[2], c[3])]
          = f[cs_index(g.nlocal, c[1] + off[1], c[2] + off[2], c[3] + off[3])]

\* C29: from the potential 0 (a valid ghost layer), every ghost site a
\* process is about to read in a half-sweep holds the current value of the
\* owned site it is the image of, and the potential of a process that has
\* completed full sweep n is that of the single process after n + 1 full
\* sweeps of the same problem
C29_NoStaleGhostRead ==
  \A p \in Procs :
    /\ pc[p] = "sweep" =>
         \A i \in PassSites(obj.nlocal, pass[p]) :
           \A j \in StencilNeighbours(obj.nlocal, i) :
             ~ IsInterior(obj.nlocal, j) =>
               LET im == GhostImage(obj, p, j)
               IN  psi[p][j] = psi[im.q][im.index]
    /\ pc[p] \in {"check", "omega_v"} =>
         MatchesSingle(p, SingleAfter(fn[p], SingleObj(obj), arg.fepsilon,
                                      InitRho(SingleObj(obj), 0),
                                      n[p] + 1).psi)

\* C29 witness: on two processes, process 1 has completed its second full
\* sweep, its potential is not 0 and it differs from that of process 0
C29_Witness ==
  /\ Procs = {0, 1}
  /\ pc[1] \in {"check", "omega_v"} /\ n[1] = 1
  /\ \E i \in Interior(obj.nlocal) : psi[1][i] # 0 /\ psi[1][i] # psi[0][i]



\* the step is one of process p
StepOf(p) == pc'[p] # pc[p]

\* C30: no step of a solve changes the charge density, the valencies or a
\* solver parameter; a step that changes the potential of a process is a
\* step of that process, a half-sweep where it changes an interior site and
\* the end of a halo exchange where it changes a ghost site; and a
\* half-sweep writes interior sites only
C30_Frame ==
  [][ /\ rho' = rho
      /\ obj' = obj
      /\ arg' = arg
      /\ \A p \in Procs : \A i \in Sites(obj.nlocal) :
           /\ psi'[p][i] # psi[p][i] =>
                /\ StepOf(p)
                /\ IF IsInterior(obj.nlocal, i)
                   THEN pc[p] = "sweep" /\ i \in PassSites(obj.nlocal, pass[p])
                   ELSE pc[p] = "halo_wait"
           /\ nwrite'[p][i] > nwrite[p][i] =>
                /\ StepOf(p) /\ pc[p] = "sweep"
                /\ IsInterior(obj.nlocal, i) ]_vars

\* C30 witness: a process is about to start its second half-sweep with an
\* interior site and a ghost site that are no longer 0: a half-sweep and a
\* halo exchange have written the potential
C30_Witness ==
  \E p \in Procs :
    /\ pc[p] = "sweep" /\ pass[p] = 1
    /\ \E i \in Sites(obj.nlocal) :
         IsInterior(obj.nlocal, i) /\ psi[p][i] # 0
    /\ \E i \in Sites(obj.nlocal) :
         ~ IsInterior(obj.nlocal, i) /\ psi[p][i] # 0


============================================================================
